---- MODULE Spec2Model ----
(***************************************************************************)
(* llmsim: the token-paced streaming engines, the statistics counters,    *)
(* the error injector and the request handlers.                            *)
(*                                                                         *)
(*   TokenStream          (src/src/stream.rs)            chat SSE stream    *)
(*   ResponsesTokenStream (src/src/responses_stream.rs)  responses stream   *)
(*   OpenResponsesTokenStream (src/src/openresponses/stream.rs)            *)
(*   Stats                (src/src/stats.rs)             atomic counters    *)
(*   ErrorInjector        (src/src/errors.rs)            injected errors    *)
(*   chat_completions, create_response, create_openresponses_response      *)
(*                        (src/src/cli/handlers.rs)      request pipeline   *)
(*                                                                         *)
(* A stream is an async generator (async_stream::stream!).  The consumer   *)
(* polls it; each poll runs the generator body from the point where it was *)
(* suspended to the next suspension point: a `yield` (one frame is handed  *)
(* to the consumer) or a `sleep(..).await` (the timer is pending).  `pc`   *)
(* names the suspension point the generator is parked at, and there is one *)
(* action per resumption.                                                  *)
(*                                                                         *)
(* A Rust String is a sequence of characters, Option<T> is a sequence of   *)
(* length 0 (None) or 1 (Some).                                            *)
(***************************************************************************)
EXTENDS Integers, Sequences, FiniteSets, TLC

VARIABLES
    engine,               \* which stream type was built: "chat" | "responses"
                          \* | "openresponses", or "none"
    content,              \* TokenStream.content / ResponsesTokenStream.content
    latency,              \* the LatencyProfile of the stream
    usage,                \* chat: Option<Usage>; responses: ResponsesUsage
    on_complete,          \* Option<OnCompleteCallback>: <<>> or <<"cb">>
    reasoning,            \* Option<ReasoningStreamConfig>
    pc,                   \* suspension point of the generator
    tokens,               \* the part of `tokens` the for loop has not consumed
    summary_tokens,       \* the part of `summary_tokens` not yet consumed
    sequence_counter,     \* responses: the shared delta counter
    message_output_index, \* responses: Option<u32>, unassigned until step 4/5
    all_output_items,     \* responses: items pushed for response.completed
    timer,                \* Option<Duration ms>: the pending sleep
    frames,               \* every frame yielded to the consumer, in order
    sleeps,               \* every timer suspension: <<kind, frames yielded before>>
    callback_calls,       \* how often the on-completion callback has run
    stats,                \* the shared Stats (SharedStats = Arc<Stats>)
    now,                  \* the monotonic clock Instant::now() reads (ms)
    writers,              \* the threads calling Stats, each with its locals
    requests,             \* the requests the handlers have accepted
    history,              \* the calls the direct callers made on Stats
    config,               \* AppState.config: the server configuration
    injector,             \* an ErrorInjector and what maybe_inject returned
    unit,                 \* a function called on its own, and what it returned
    reader                \* a thread taking a snapshot, and what it has loaded

vars == <<engine, content, latency, usage, on_complete, reasoning, pc, tokens,
          summary_tokens, sequence_counter, message_output_index,
          all_output_items, timer, frames, sleeps, callback_calls,
          stats, now, writers, requests, history, config, injector, unit,
          reader>>

----------------------------------------------------------------------------
(* Bounds of the model *)

\* longest content string (characters)
MaxContentLen == 3
\* longest reasoning summary text (characters)
MaxSummaryLen == 1

\* the characters strings are made of: one word character, two whitespace
Alphabet == {"a", " ", "\n"}

\* char::is_whitespace restricted to Alphabet
is_whitespace(ch) == ch \in {" ", "\n"}

None == <<>>
Some(x) == <<x>>
is_some(o) == Len(o) = 1
unwrap(o) == o[1]

StringsUpTo(n) == UNION {[1..k -> Alphabet] : k \in 0..n}

RECURSIVE Concat(_)
\* concatenation of a sequence of strings
Concat(ss) == IF ss = <<>> THEN <<>> ELSE Head(ss) \o Concat(Tail(ss))
\* width in bits of the model's AtomicU64
CounterBits == 24
\* calls the single-threaded caller of Stats makes
MaxCalls == 6
\* threads calling Stats concurrently, and iterations of each
NumWriters == 2
Iterations == 2
\* windows of 60 s the clock runs through
MaxWindows == 1
\* the parts a probability is measured in
RateUnits == 5
\* requests the server accepts in one run
MaxRequests == 1
\* the upper bound claimed for the rolling vector, scaled down from 10 000
RollingCap == 3

----------------------------------------------------------------------------
(* Streaming tokenizer *)

RECURSIVE tokenize_loop_DropWhitespace(_, _, _)
\* mutant: whitespace ends a word but is not kept as a token
tokenize_loop_DropWhitespace(rest, toks, current_word) ==
    IF rest = <<>>
    THEN IF current_word # <<>> THEN Append(toks, current_word) ELSE toks
    ELSE LET ch == Head(rest) IN
         IF is_whitespace(ch)
         THEN tokenize_loop_DropWhitespace(Tail(rest),
                                           IF current_word # <<>>
                                           THEN Append(toks, current_word)
                                           ELSE toks,
                                           <<>>)
         ELSE tokenize_loop_DropWhitespace(Tail(rest), toks,
                                           Append(current_word, ch))

RECURSIVE tokenize_loop(_, _, _)
\* the `for ch in text.chars()` loop with its two locals, then the trailing push
tokenize_loop(rest, toks, current_word) ==
    IF rest = <<>>
    THEN IF current_word # <<>> THEN Append(toks, current_word) ELSE toks
    ELSE LET ch == Head(rest) IN
         IF is_whitespace(ch)
         THEN tokenize_loop(Tail(rest),
                            Append(IF current_word # <<>>
                                   THEN Append(toks, current_word)
                                   ELSE toks,
                                   <<ch>>),
                            <<>>)
         ELSE tokenize_loop(Tail(rest), toks, Append(current_word, ch))

\* TokenStream::tokenize
tokenize(text) == tokenize_loop(text, <<>>, <<>>)

\* ResponsesTokenStream::tokenize
responses_tokenize(text) == tokenize_loop(text, <<>>, <<>>)

\* ResponsesTokenStream::tokenize_text
tokenize_text(text) == tokenize_loop(text, <<>>, <<>>)

----------------------------------------------------------------------------
(* Latency sampling *)

\* LatencyProfile::instant, and a profile that sleeps: a TTFT without jitter
\* (stddev 0) and a TBT with jitter
instant == [ttft_mean_ms |-> 0, ttft_stddev_ms |-> 0,
            tbt_mean_ms |-> 0, tbt_stddev_ms |-> 0]
slow_profile == [ttft_mean_ms |-> 3, ttft_stddev_ms |-> 0,
                 tbt_mean_ms |-> 2, tbt_stddev_ms |-> 1]
LatencyProfiles == {instant, slow_profile}

\* LatencyProfile::new
LatencyProfile_new(ttft_mean, ttft_stddev, tbt_mean, tbt_stddev) ==
    [ttft_mean_ms |-> ttft_mean, ttft_stddev_ms |-> ttft_stddev,
     tbt_mean_ms |-> tbt_mean, tbt_stddev_ms |-> tbt_stddev]

\* the preset profiles
gpt4 == LatencyProfile_new(800, 200, 50, 15)
gpt4o == LatencyProfile_new(400, 100, 25, 8)
gpt5 == LatencyProfile_new(600, 150, 40, 12)
gpt5_mini == LatencyProfile_new(300, 80, 20, 6)
o_series == LatencyProfile_new(2000, 500, 30, 10)
claude_opus == LatencyProfile_new(1000, 250, 60, 20)
claude_sonnet == LatencyProfile_new(500, 120, 30, 10)
claude_haiku == LatencyProfile_new(200, 50, 15, 5)
gemini_pro == LatencyProfile_new(600, 150, 35, 10)
fast == LatencyProfile_new(10, 2, 1, 0)

Presets == {gpt4, gpt4o, gpt5, gpt5_mini, o_series, claude_opus,
            claude_sonnet, claude_haiku, gemini_pro, instant, fast}

\* str::to_lowercase on the ASCII letters
Uppercase == "ABCDEFGHIJKLMNOPQRSTUVWXYZ"
Lowercase == "abcdefghijklmnopqrstuvwxyz"
LowerOf ==
    [c \in {SubSeq(Uppercase, i, i) : i \in 1..Len(Uppercase)} |->
        LET i == CHOOSE i \in 1..Len(Uppercase) : SubSeq(Uppercase, i, i) = c
        IN SubSeq(Lowercase, i, i)]
char_to_lowercase(c) == IF c \in DOMAIN LowerOf THEN LowerOf[c] ELSE c
RECURSIVE to_lowercase(_)
to_lowercase(s) ==
    IF Len(s) = 0 THEN ""
    ELSE char_to_lowercase(SubSeq(s, 1, 1))
             \o to_lowercase(SubSeq(s, 2, Len(s)))

\* str::starts_with and str::contains
starts_with(s, pat) ==
    Len(pat) <= Len(s) /\ SubSeq(s, 1, Len(pat)) = pat
contains(s, pat) ==
    \E i \in 1..(Len(s) - Len(pat) + 1) :
        SubSeq(s, i, i + Len(pat) - 1) = pat

\* LatencyProfile::from_model testing each family before its specific
\* variants
from_model_FamilyFirst(model) ==
    LET model_lower == to_lowercase(model)
    IN IF contains(model_lower, "gpt-4") THEN gpt4
       ELSE IF contains(model_lower, "gpt-4o") THEN gpt4o
       ELSE IF contains(model_lower, "gpt-5") THEN gpt5
       ELSE IF contains(model_lower, "gpt-5-mini") THEN gpt5_mini
       ELSE IF starts_with(model_lower, "o3")
               \/ starts_with(model_lower, "o4") THEN o_series
       ELSE IF contains(model_lower, "opus") THEN claude_opus
       ELSE IF contains(model_lower, "sonnet") THEN claude_sonnet
       ELSE IF contains(model_lower, "haiku") THEN claude_haiku
       ELSE IF contains(model_lower, "gemini") THEN gemini_pro
       ELSE gpt5

\* LatencyProfile::from_model
from_model(model) ==
    LET model_lower == to_lowercase(model)
    IN IF contains(model_lower, "gpt-5-mini") THEN gpt5_mini
       ELSE IF contains(model_lower, "gpt-5") THEN gpt5
       ELSE IF starts_with(model_lower, "o3")
               \/ starts_with(model_lower, "o4") THEN o_series
       ELSE IF contains(model_lower, "gpt-4o") THEN gpt4o
       ELSE IF contains(model_lower, "gpt-4") THEN gpt4
       ELSE IF contains(model_lower, "opus") THEN claude_opus
       ELSE IF contains(model_lower, "sonnet") THEN claude_sonnet
       ELSE IF contains(model_lower, "haiku") THEN claude_haiku
       ELSE IF contains(model_lower, "gemini") THEN gemini_pro
       ELSE gpt5

\* values normal.sample() can return, in tenths of a millisecond
NormalDraws == {-25, 0, 4, 10, 27}

\* f64::max(1.0) followed by `as u64` (truncation), on tenths
floor_at_1ms(draw) == (IF draw > 10 THEN draw ELSE 10) \div 10

\* the durations (ms) one sample of N(mean, stddev) can yield
sample(mean, stddev) ==
    IF mean = 0 THEN {0}
    ELSE IF stddev > 0 THEN {floor_at_1ms(d) : d \in NormalDraws}
    ELSE {mean}

sample_ttft(p) == sample(p.ttft_mean_ms, p.ttft_stddev_ms)
sample_tbt(p) == sample(p.tbt_mean_ms, p.tbt_stddev_ms)

----------------------------------------------------------------------------
(* Stats: the shared counters (src/src/stats.rs) *)

\* AtomicU64::fetch_add and fetch_sub wrap around at the width of the counter
u64_MAX == 2^CounterBits - 1
wrapping_add(a, b) == (a + b) % (u64_MAX + 1)
wrapping_sub(a, b) == (a - b) % (u64_MAX + 1)

\* mutant: a plain store of the operand in place of the read-modify-write
fetch_add_Store(s, field, n) == [s EXCEPT ![field] = n]
\* AtomicU64::fetch_add(n, ORDERING) on one field of Stats
fetch_add(s, field, n) == [s EXCEPT ![field] = wrapping_add(@, n)]
\* mutant: the subtraction is left out
fetch_sub_Skipped(s, field, n) == s
\* AtomicU64::fetch_sub(n, ORDERING)
fetch_sub(s, field, n) == [s EXCEPT ![field] = wrapping_sub(@, n)]

\* a Duration is a number of milliseconds, an Instant a number of
\* milliseconds on the monotonic clock
from_millis(ms) == ms
from_secs(secs) == secs * 1000
\* `latency.as_micros() as u64`
as_micros(d) == (d * 1000) % (u64_MAX + 1)

\* the length of the rolling window, in seconds
WINDOW_SECS == 60

\* HashMap::new()
HashMap_new == [m \in {} |-> 0]
\* mutant: the entry is set to 1 whatever it held
entry_or_insert_add_Overwrite(map, key) ==
    [m \in DOMAIN map \cup {key} |-> IF m = key THEN 1 ELSE map[m]]
\* `*map.entry(key).or_insert(0) += 1`
entry_or_insert_add(map, key) ==
    [m \in DOMAIN map \cup {key} |->
        (IF m \in DOMAIN map THEN map[m] ELSE 0) + (IF m = key THEN 1 ELSE 0)]

\* Stats::new
Stats_new ==
    [total_requests |-> 0, active_requests |-> 0,
     streaming_requests |-> 0, non_streaming_requests |-> 0,
     completions_requests |-> 0, responses_requests |-> 0,
     prompt_tokens |-> 0, completion_tokens |-> 0,
     total_errors |-> 0, rate_limit_errors |-> 0, server_errors |-> 0,
     timeout_errors |-> 0,
     model_requests |-> HashMap_new,
     total_latency_us |-> 0, completed_requests |-> 0,
     min_latency_us |-> u64_MAX, max_latency_us |-> 0,
     request_times |-> <<>>]

\* The locals of one call on Stats.  A call is a sequence of atomic
\* operations on the shared counters; `pc` names the operation the calling
\* thread performs next, "returned" when the call is over.
NoCall ==
    [pc |-> "returned", model |-> "", is_streaming |-> FALSE, endpoint |-> "",
     latency |-> 0, prompt_tokens |-> 0, completion_tokens |-> 0,
     status_code |-> 0, latency_us |-> 0, current_min |-> 0, current_max |-> 0]

\* the entry of record_request_start(model, is_streaming, endpoint)
enter_record_request_start(model, is_streaming, endpoint) ==
    [NoCall EXCEPT !.pc = "total_requests", !.model = model,
                   !.is_streaming = is_streaming, !.endpoint = endpoint]

\* the entry of record_request_end(latency, prompt_tokens, completion_tokens)
enter_record_request_end(d, prompt_tokens, completion_tokens) ==
    [NoCall EXCEPT !.pc = "end_active", !.latency = d,
                   !.prompt_tokens = prompt_tokens,
                   !.completion_tokens = completion_tokens]

\* the entry of record_error(status_code)
enter_record_error(status_code) ==
    [NoCall EXCEPT !.pc = "err_total", !.status_code = status_code]

\* the result of one atomic operation: the counters and the caller's locals
Stepped(s, l, next) == [stats |-> s, local |-> [l EXCEPT !.pc = next]]

\* mutant: nothing is evicted
retain_KeepsAll(times, cutoff) == times
\* `times.retain(|t| *t > cutoff)`
retain(times, cutoff) ==
    LET keep(t) == t > cutoff IN SelectSeq(times, keep)

\* record_request_start, one atomic operation at a time; `t` is what
\* Instant::now() returns to the caller
record_request_start_step(s, l, t) ==
    CASE l.pc = "total_requests" ->
           Stepped(fetch_add(s, "total_requests", 1), l, "active_requests")
      [] l.pc = "active_requests" ->
           Stepped(fetch_add(s, "active_requests", 1), l, "streaming")
      [] l.pc = "streaming" ->
           Stepped(IF l.is_streaming
                   THEN fetch_add(s, "streaming_requests", 1)
                   ELSE fetch_add(s, "non_streaming_requests", 1),
                   l, "endpoint")
      [] l.pc = "endpoint" ->
           Stepped(IF l.endpoint = "ChatCompletions"
                   THEN fetch_add(s, "completions_requests", 1)
                   ELSE fetch_add(s, "responses_requests", 1),
                   l, "model_requests")
      [] l.pc = "model_requests" ->
           Stepped([s EXCEPT !.model_requests =
                                 entry_or_insert_add(@, l.model)],
                   l, "times_push")
      [] l.pc = "times_push" ->
           Stepped([s EXCEPT !.request_times = Append(@, t)],
                   l, "times_retain")
      [] l.pc = "times_retain" ->
           Stepped([s EXCEPT !.request_times =
                                 retain(@, t - from_secs(WINDOW_SECS))],
                   l, "returned")

\* mutant: the minimum loop compares the wrong way round
record_request_end_step_MinNeverSet(s, l) ==
    CASE l.pc = "end_active" ->
           Stepped(fetch_sub(s, "active_requests", 1), l, "end_completed")
      [] l.pc = "end_completed" ->
           Stepped(fetch_add(s, "completed_requests", 1), l, "end_prompt")
      [] l.pc = "end_prompt" ->
           Stepped(fetch_add(s, "prompt_tokens", l.prompt_tokens),
                   l, "end_completion")
      [] l.pc = "end_completion" ->
           Stepped(fetch_add(s, "completion_tokens", l.completion_tokens),
                   l, "end_latency")
      [] l.pc = "end_latency" ->
           Stepped(fetch_add(s, "total_latency_us", as_micros(l.latency)),
                   [l EXCEPT !.latency_us = as_micros(l.latency)],
                   "min_load")
      [] l.pc = "min_load" ->
           Stepped(s, [l EXCEPT !.current_min = s.min_latency_us], "min_cas")
      [] l.pc = "min_cas" ->
           IF ~(l.latency_us > l.current_min) THEN Stepped(s, l, "max_load")
           ELSE IF s.min_latency_us = l.current_min
           THEN Stepped([s EXCEPT !.min_latency_us = l.latency_us],
                        l, "max_load")
           ELSE Stepped(s, [l EXCEPT !.current_min = s.min_latency_us],
                        "min_cas")
      [] l.pc = "max_load" ->
           Stepped(s, [l EXCEPT !.current_max = s.max_latency_us], "max_cas")
      [] l.pc = "max_cas" ->
           IF ~(l.latency_us > l.current_max) THEN Stepped(s, l, "returned")
           ELSE IF s.max_latency_us = l.current_max
           THEN Stepped([s EXCEPT !.max_latency_us = l.latency_us],
                        l, "returned")
           ELSE Stepped(s, [l EXCEPT !.current_max = s.max_latency_us],
                        "max_cas")

\* mutant: a plain store in place of each compare_exchange_weak
record_request_end_step_Store(s, l) ==
    CASE l.pc = "end_active" ->
           Stepped(fetch_sub(s, "active_requests", 1), l, "end_completed")
      [] l.pc = "end_completed" ->
           Stepped(fetch_add(s, "completed_requests", 1), l, "end_prompt")
      [] l.pc = "end_prompt" ->
           Stepped(fetch_add(s, "prompt_tokens", l.prompt_tokens),
                   l, "end_completion")
      [] l.pc = "end_completion" ->
           Stepped(fetch_add(s, "completion_tokens", l.completion_tokens),
                   l, "end_latency")
      [] l.pc = "end_latency" ->
           Stepped(fetch_add(s, "total_latency_us", as_micros(l.latency)),
                   [l EXCEPT !.latency_us = as_micros(l.latency)],
                   "min_load")
      [] l.pc = "min_load" ->
           Stepped(s, [l EXCEPT !.current_min = s.min_latency_us], "min_cas")
      [] l.pc = "min_cas" ->
           IF ~(l.latency_us < l.current_min) THEN Stepped(s, l, "max_load")
           ELSE Stepped([s EXCEPT !.min_latency_us = l.latency_us],
                        l, "max_load")
      [] l.pc = "max_load" ->
           Stepped(s, [l EXCEPT !.current_max = s.max_latency_us], "max_cas")
      [] l.pc = "max_cas" ->
           IF ~(l.latency_us > l.current_max) THEN Stepped(s, l, "returned")
           ELSE Stepped([s EXCEPT !.max_latency_us = l.latency_us],
                        l, "returned")

\* record_request_end, one atomic operation at a time.  A failed
\* compare_exchange_weak hands back the value it found and the loop goes
\* round again; a spurious failure finds the expected value and changes
\* nothing.
record_request_end_step(s, l) ==
    CASE l.pc = "end_active" ->
           Stepped(fetch_sub(s, "active_requests", 1), l, "end_completed")
      [] l.pc = "end_completed" ->
           Stepped(fetch_add(s, "completed_requests", 1), l, "end_prompt")
      [] l.pc = "end_prompt" ->
           Stepped(fetch_add(s, "prompt_tokens", l.prompt_tokens),
                   l, "end_completion")
      [] l.pc = "end_completion" ->
           Stepped(fetch_add(s, "completion_tokens", l.completion_tokens),
                   l, "end_latency")
      [] l.pc = "end_latency" ->
           Stepped(fetch_add(s, "total_latency_us", as_micros(l.latency)),
                   [l EXCEPT !.latency_us = as_micros(l.latency)],
                   "min_load")
      [] l.pc = "min_load" ->
           Stepped(s, [l EXCEPT !.current_min = s.min_latency_us], "min_cas")
      [] l.pc = "min_cas" ->
           IF ~(l.latency_us < l.current_min) THEN Stepped(s, l, "max_load")
           ELSE IF s.min_latency_us = l.current_min
           THEN Stepped([s EXCEPT !.min_latency_us = l.latency_us],
                        l, "max_load")
           ELSE Stepped(s, [l EXCEPT !.current_min = s.min_latency_us],
                        "min_cas")
      [] l.pc = "max_load" ->
           Stepped(s, [l EXCEPT !.current_max = s.max_latency_us], "max_cas")
      [] l.pc = "max_cas" ->
           IF ~(l.latency_us > l.current_max) THEN Stepped(s, l, "returned")
           ELSE IF s.max_latency_us = l.current_max
           THEN Stepped([s EXCEPT !.max_latency_us = l.latency_us],
                        l, "returned")
           ELSE Stepped(s, [l EXCEPT !.current_max = s.max_latency_us],
                        "max_cas")

\* mutant: record_error takes the request back out of total_requests
record_error_step_UncountsRequest(s, l) ==
    CASE l.pc = "err_total" ->
           Stepped(fetch_add(s, "total_errors", 1), l, "err_active")
      [] l.pc = "err_active" ->
           Stepped(fetch_sub(fetch_sub(s, "active_requests", 1),
                             "total_requests", 1),
                   l, "err_kind")
      [] l.pc = "err_kind" ->
           Stepped(CASE l.status_code = 429 ->
                          fetch_add(s, "rate_limit_errors", 1)
                     [] l.status_code \in {500, 503} ->
                          fetch_add(s, "server_errors", 1)
                     [] l.status_code = 504 ->
                          fetch_add(s, "timeout_errors", 1)
                     [] OTHER -> s,
                   l, "returned")

\* mutant: the kind counter is raised before total_errors
record_error_step_KindFirst(s, l) ==
    CASE l.pc = "err_total" ->
           Stepped(CASE l.status_code = 429 ->
                          fetch_add(s, "rate_limit_errors", 1)
                     [] l.status_code \in {500, 503} ->
                          fetch_add(s, "server_errors", 1)
                     [] l.status_code = 504 ->
                          fetch_add(s, "timeout_errors", 1)
                     [] OTHER -> s,
                   l, "err_active")
      [] l.pc = "err_active" ->
           Stepped(fetch_sub(s, "active_requests", 1), l, "err_kind")
      [] l.pc = "err_kind" ->
           Stepped(fetch_add(s, "total_errors", 1), l, "returned")

\* mutant: only status 500 counts as a server error
record_error_step_Only500(s, l) ==
    CASE l.pc = "err_total" ->
           Stepped(fetch_add(s, "total_errors", 1), l, "err_active")
      [] l.pc = "err_active" ->
           Stepped(fetch_sub(s, "active_requests", 1), l, "err_kind")
      [] l.pc = "err_kind" ->
           Stepped(CASE l.status_code = 429 ->
                          fetch_add(s, "rate_limit_errors", 1)
                     [] l.status_code = 500 ->
                          fetch_add(s, "server_errors", 1)
                     [] l.status_code = 504 ->
                          fetch_add(s, "timeout_errors", 1)
                     [] OTHER -> s,
                   l, "returned")

\* record_error, one atomic operation at a time
record_error_step(s, l) ==
    CASE l.pc = "err_total" ->
           Stepped(fetch_add(s, "total_errors", 1), l, "err_active")
      [] l.pc = "err_active" ->
           Stepped(fetch_sub(s, "active_requests", 1), l, "err_kind")
      [] l.pc = "err_kind" ->
           Stepped(CASE l.status_code = 429 ->
                          fetch_add(s, "rate_limit_errors", 1)
                     [] l.status_code \in {500, 503} ->
                          fetch_add(s, "server_errors", 1)
                     [] l.status_code = 504 ->
                          fetch_add(s, "timeout_errors", 1)
                     [] OTHER -> s,
                   l, "returned")

StartPcs == {"total_requests", "active_requests", "streaming", "endpoint",
             "model_requests", "times_push", "times_retain"}
ErrorPcs == {"err_total", "err_active", "err_kind"}

\* the next atomic operation of whichever call `l` is in
stats_step(s, l, t) ==
    IF l.pc \in StartPcs THEN record_request_start_step(s, l, t)
    ELSE IF l.pc \in ErrorPcs THEN record_error_step(s, l)
    ELSE record_request_end_step(s, l)

\* a call run to its return with no other thread in between
RECURSIVE run_call(_, _, _)
run_call(s, l, t) ==
    IF l.pc = "returned" THEN s
    ELSE LET r == stats_step(s, l, t) IN run_call(r.stats, r.local, t)

\* Stats::record_request_start
record_request_start(s, model, is_streaming, endpoint, t) ==
    run_call(s, enter_record_request_start(model, is_streaming, endpoint), t)

\* Stats::record_request_end
record_request_end(s, d, prompt_tokens, completion_tokens) ==
    run_call(s, enter_record_request_end(d, prompt_tokens, completion_tokens),
             0)

\* Stats::record_error
record_error(s, status_code) == run_call(s, enter_record_error(status_code), 0)

\* an f64 that is the quotient of two integers, kept exact
Ratio(num, den) == [num |-> num, den |-> den]
RatioEq(a, b) == a.num * b.den = b.num * a.den

\* the smallest element of a non-empty sequence: `iter().min()`
RECURSIVE min_of(_)
min_of(times) ==
    IF Len(times) = 1 THEN times[1]
    ELSE LET rest == min_of(Tail(times))
         IN IF times[1] <= rest THEN times[1] ELSE rest

\* mutant: the count is divided by the length of the window
requests_per_second_FixedWindow(s, t) ==
    LET cutoff == t - from_secs(WINDOW_SECS)
        recent == retain(s.request_times, cutoff)
    IN IF Len(recent) = 0 THEN Ratio(0, 1)
       ELSE Ratio(Len(recent), WINDOW_SECS)

\* Stats::requests_per_second, `t` being what Instant::now() returns; the
\* window is a number of milliseconds, `as_secs_f64` divides it by 1000
requests_per_second(s, t) ==
    LET cutoff == t - from_secs(WINDOW_SECS)
        recent == retain(s.request_times, cutoff)
        recent_count == Len(recent)
    IN IF recent_count = 0 THEN Ratio(0, 1)
       ELSE LET oldest == min_of(recent)
                window == t - oldest
            IN IF window > 0 THEN Ratio(recent_count * 1000, window)
               ELSE Ratio(0, 1)

\* Stats::avg_latency_ms
avg_latency_ms(s) ==
    IF s.completed_requests = 0 THEN Ratio(0, 1)
    ELSE Ratio(s.total_latency_us, s.completed_requests * 1000)

\* Stats::min_latency_ms
min_latency_ms(s) ==
    IF s.min_latency_us = u64_MAX THEN None
    ELSE Some(Ratio(s.min_latency_us, 1000))

\* Stats::max_latency_ms
max_latency_ms(s) ==
    IF s.max_latency_us = 0 THEN None
    ELSE Some(Ratio(s.max_latency_us, 1000))

\* the fields of StatsSnapshot that are computed from more than one load:
\* the token counts and the latencies.  The other fields are loaded in
\* their turn and not kept.
NoSnapshot ==
    [prompt_tokens |-> 0, completion_tokens |-> 0, total_tokens |-> 0,
     avg_latency_ms |-> Ratio(0, 1),
     min_latency_ms |-> None, max_latency_ms |-> None]

\* the entry of snapshot(): the locals of the call, `pc` naming the load
\* the thread performs next
enter_snapshot ==
    [pc |-> "total_requests", snapshot |-> NoSnapshot, prompt |-> 0,
     completed |-> 0]

\* the order in which snapshot() loads the fields that are not kept
NextLoad ==
    [total_requests |-> "active_requests",
     active_requests |-> "streaming_requests",
     streaming_requests |-> "non_streaming_requests",
     non_streaming_requests |-> "completions_requests",
     completions_requests |-> "responses_requests",
     responses_requests |-> "prompt_tokens",
     total_errors |-> "rate_limit_errors",
     rate_limit_errors |-> "server_errors",
     server_errors |-> "timeout_errors",
     timeout_errors |-> "requests_per_second",
     requests_per_second |-> "avg_completed",
     model_requests |-> "returned"]

\* Stats::snapshot, one atomic load (or one read under a lock) at a time,
\* in the order the fields of the struct literal are evaluated.
\* total_tokens() loads prompt_tokens and completion_tokens again,
\* avg_latency_ms() loads completed_requests and then total_latency_us.
snapshot_step(s, r) ==
    CASE r.pc \in DOMAIN NextLoad ->
           [r EXCEPT !.pc = NextLoad[r.pc]]
      [] r.pc = "prompt_tokens" ->
           [r EXCEPT !.snapshot.prompt_tokens = s.prompt_tokens,
                     !.pc = "completion_tokens"]
      [] r.pc = "completion_tokens" ->
           [r EXCEPT !.snapshot.completion_tokens = s.completion_tokens,
                     !.pc = "total_tokens_prompt"]
      [] r.pc = "total_tokens_prompt" ->
           [r EXCEPT !.prompt = s.prompt_tokens,
                     !.pc = "total_tokens_completion"]
      [] r.pc = "total_tokens_completion" ->
           [r EXCEPT !.snapshot.total_tokens =
                         r.prompt + s.completion_tokens,
                     !.prompt = 0,
                     !.pc = "total_errors"]
      [] r.pc = "avg_completed" ->
           IF s.completed_requests = 0
           THEN [r EXCEPT !.snapshot.avg_latency_ms = Ratio(0, 1),
                          !.pc = "min_latency_ms"]
           ELSE [r EXCEPT !.completed = s.completed_requests,
                          !.pc = "avg_total"]
      [] r.pc = "avg_total" ->
           [r EXCEPT !.snapshot.avg_latency_ms =
                         Ratio(s.total_latency_us, r.completed * 1000),
                     !.completed = 0,
                     !.pc = "min_latency_ms"]
      [] r.pc = "min_latency_ms" ->
           [r EXCEPT !.snapshot.min_latency_ms = min_latency_ms(s),
                     !.pc = "max_latency_ms"]
      [] r.pc = "max_latency_ms" ->
           [r EXCEPT !.snapshot.max_latency_ms = max_latency_ms(s),
                     !.pc = "model_requests"]

----------------------------------------------------------------------------
(* Error injection (src/src/errors.rs) *)

\* A probability is a multiple of 1/RateUnits: the rate k stands for
\* k/RateUnits, and the draw r for every f64 in [r/RateUnits, (r+1)/RateUnits),
\* which all compare alike with a threshold that is a multiple of 1/RateUnits.
Rates == 0..RateUnits

\* rng.random::<f64>(): uniform in [0, 1)
random_f64 == 0..(RateUnits - 1)

\* mutant: the upper end of the range is included
random_range_Inclusive(low, high) == low..high

\* rng.random_range(low..high): uniform in the half-open range
random_range(low, high) == low..(high - 1)

\* rng.random_bool(0.7): either outcome
random_bool == BOOLEAN

\* ErrorConfig::default
ErrorConfig_default ==
    [rate_limit_rate |-> 0, server_error_rate |-> 0, timeout_rate |-> 0,
     timeout_after_ms |-> 30000, invalid_request_rate |-> 0,
     auth_error_rate |-> 0]

\* enum SimulatedError
RateLimit(retry_after_seconds) ==
    [kind |-> "RateLimit", retry_after_seconds |-> retry_after_seconds]
ServerError == [kind |-> "ServerError"]
ServiceUnavailable == [kind |-> "ServiceUnavailable"]
Timeout(after) == [kind |-> "Timeout", after |-> after]
InvalidRequest(message) == [kind |-> "InvalidRequest", message |-> message]
AuthenticationError == [kind |-> "AuthenticationError"]

\* SimulatedError::status_code
SimulatedError_status_code(error) ==
    CASE error.kind = "RateLimit" -> 429
      [] error.kind = "ServerError" -> 500
      [] error.kind = "ServiceUnavailable" -> 503
      [] error.kind = "Timeout" -> 504
      [] error.kind = "InvalidRequest" -> 400
      [] error.kind = "AuthenticationError" -> 401

\* ErrorResponse::new and the ready-made envelopes
ErrorResponse_new(message, error_type) ==
    [error |-> [message |-> message, type |-> error_type, param |-> None,
                code |-> None]]
ErrorResponse_rate_limit ==
    [error |-> [message |-> "Rate limit exceeded. Please retry after some time.",
                type |-> "rate_limit_error", param |-> None,
                code |-> Some("rate_limit_exceeded")]]
ErrorResponse_server_error ==
    [error |-> [message |-> "The server had an error processing your request.",
                type |-> "server_error", param |-> None,
                code |-> Some("server_error")]]
ErrorResponse_invalid_request(message) ==
    [error |-> [message |-> message, type |-> "invalid_request_error",
                param |-> None, code |-> None]]

\* SimulatedError::to_error_response
to_error_response(error) ==
    CASE error.kind = "RateLimit" -> ErrorResponse_rate_limit
      [] error.kind = "ServerError" -> ErrorResponse_server_error
      [] error.kind = "ServiceUnavailable" ->
           ErrorResponse_new("Service temporarily unavailable",
                             "service_unavailable")
      [] error.kind = "Timeout" ->
           ErrorResponse_new("Request timed out", "timeout_error")
      [] error.kind = "InvalidRequest" ->
           ErrorResponse_invalid_request(error.message)
      [] error.kind = "AuthenticationError" ->
           ErrorResponse_new("Invalid API key provided",
                             "authentication_error")

\* SimulatedError::retry_after
retry_after(error) ==
    CASE error.kind = "RateLimit" -> Some(error.retry_after_seconds)
      [] error.kind = "ServiceUnavailable" -> Some(60)
      [] OTHER -> None

\* mutant: every check compares the draw with its own rate, the threshold
\* does not accumulate
maybe_inject_OwnRate(cfg, roll, retry_after_seconds, coin) ==
    IF roll < cfg.rate_limit_rate
    THEN Some(RateLimit(retry_after_seconds))
    ELSE IF roll < cfg.server_error_rate
    THEN (IF coin THEN Some(ServerError) ELSE Some(ServiceUnavailable))
    ELSE IF roll < cfg.timeout_rate
    THEN Some(Timeout(from_millis(cfg.timeout_after_ms)))
    ELSE IF roll < cfg.invalid_request_rate
    THEN Some(InvalidRequest("Simulated invalid request error"))
    ELSE IF roll < cfg.auth_error_rate
    THEN Some(AuthenticationError)
    ELSE None

\* ErrorInjector::maybe_inject, given what the generator draws: `roll` from
\* random(), `retry_after_seconds` from random_range(1..60), `coin` from
\* random_bool(0.7)
maybe_inject(cfg, roll, retry_after_seconds, coin) ==
    LET threshold1 == 0 + cfg.rate_limit_rate
        threshold2 == threshold1 + cfg.server_error_rate
        threshold3 == threshold2 + cfg.timeout_rate
        threshold4 == threshold3 + cfg.invalid_request_rate
        threshold5 == threshold4 + cfg.auth_error_rate
    IN IF roll < threshold1
       THEN Some(RateLimit(retry_after_seconds))
       ELSE IF roll < threshold2
       THEN (IF coin THEN Some(ServerError) ELSE Some(ServiceUnavailable))
       ELSE IF roll < threshold3
       THEN Some(Timeout(from_millis(cfg.timeout_after_ms)))
       ELSE IF roll < threshold4
       THEN Some(InvalidRequest("Simulated invalid request error"))
       ELSE IF roll < threshold5
       THEN Some(AuthenticationError)
       ELSE None

\* the configurations an injector is built with
ErrorConfigs ==
    [rate_limit_rate : Rates, server_error_rate : Rates, timeout_rate : Rates,
     timeout_after_ms : {30000}, invalid_request_rate : Rates,
     auth_error_rate : Rates]

\* ErrorInjector::new, with no call of maybe_inject yet
ErrorInjector_new(cfg) == [config |-> cfg, roll |-> None, returned |-> None]

\* no injector under test
NoInjector == <<>>

\* no function called on its own
NoUnit == <<>>

\* no snapshot is being taken
NoReader == <<>>

\* Config::error_config: the server never injects the 400 and 401 kinds
error_config(c) ==
    [rate_limit_rate |-> c.errors.rate_limit_rate,
     server_error_rate |-> c.errors.server_error_rate,
     timeout_rate |-> c.errors.timeout_rate,
     timeout_after_ms |-> c.errors.timeout_after_ms,
     invalid_request_rate |-> 0, auth_error_rate |-> 0]

\* ErrorsConfig::default (derived: every field is zero)
ErrorsConfig_default ==
    [rate_limit_rate |-> 0, server_error_rate |-> 0, timeout_rate |-> 0,
     timeout_after_ms |-> 0]

\* default_timeout, what a configuration file's errors section gets when it
\* does not set timeout_after_ms
default_timeout == 30000

\* LatencyConfig::default (derived: every field is None)
LatencyConfig_default ==
    [profile |-> None, ttft_mean_ms |-> None, ttft_stddev_ms |-> None,
     tbt_mean_ms |-> None, tbt_stddev_ms |-> None]

\* Config::default
Config_default ==
    [errors |-> ErrorsConfig_default, latency |-> LatencyConfig_default]

\* Option::unwrap_or
unwrap_or(o, default) == IF is_some(o) THEN unwrap(o) ELSE default

\* the match of Config::latency_profile on the lowercased profile name
profile_named(name) ==
    LET n == to_lowercase(name)
    IN IF n \in {"gpt5", "gpt-5"} THEN gpt5
       ELSE IF n \in {"gpt5-mini", "gpt-5-mini"} THEN gpt5_mini
       ELSE IF n \in {"o3", "o4", "o-series"} THEN o_series
       ELSE IF n \in {"gpt4", "gpt-4"} THEN gpt4
       ELSE IF n \in {"gpt4o", "gpt-4o"} THEN gpt4o
       ELSE IF n \in {"claude-opus", "opus"} THEN claude_opus
       ELSE IF n \in {"claude-sonnet", "sonnet"} THEN claude_sonnet
       ELSE IF n \in {"claude-haiku", "haiku"} THEN claude_haiku
       ELSE IF n \in {"gemini", "gemini-pro"} THEN gemini_pro
       ELSE IF n = "instant" THEN instant
       ELSE IF n = "fast" THEN fast
       ELSE gpt5

\* whether Config::latency_profile builds the profile from the configuration
\* (a named profile, or custom values) and not its default
latency_configured(c) ==
    \/ is_some(c.latency.profile)
    \/ is_some(c.latency.ttft_mean_ms)
    \/ is_some(c.latency.tbt_mean_ms)

\* Config::latency_profile
latency_profile(c) ==
    IF is_some(c.latency.profile)
    THEN profile_named(unwrap(c.latency.profile))
    ELSE IF is_some(c.latency.ttft_mean_ms) \/ is_some(c.latency.tbt_mean_ms)
    THEN LatencyProfile_new(unwrap_or(c.latency.ttft_mean_ms, 600),
                            unwrap_or(c.latency.ttft_stddev_ms, 150),
                            unwrap_or(c.latency.tbt_mean_ms, 40),
                            unwrap_or(c.latency.tbt_stddev_ms, 12))
    ELSE gpt5

\* the handlers' choice of the latency profile of one request
handler_latency(c, model) ==
    IF is_some(c.latency.profile) \/ is_some(c.latency.ttft_mean_ms)
    THEN latency_profile(c)
    ELSE from_model(model)

----------------------------------------------------------------------------
(* The callers of Stats *)

\* the arguments the callers pass
Models == {"gpt-4", "claude-opus"}
StartArgs == {<<"gpt-4", FALSE, "ChatCompletions">>,
              <<"gpt-4", TRUE, "Responses">>,
              <<"claude-opus", TRUE, "ChatCompletions">>}
Latencies == {from_millis(0), from_millis(100), from_millis(200),
              from_millis(300)}
TokenCounts == {<<10, 20>>, <<50, 100>>}
StatusCodes == {429, 500, 503, 504, 400, 401}

\* the clock reading at Stats::new
Epoch == from_secs(100)
\* how far the clock moves at once: just short of the window, and the window
ClockSteps == {from_secs(WINDOW_SECS) - 1, from_secs(WINDOW_SECS)}

\* no call made yet
NoHistory ==
    [starts |-> 0, models |-> [m \in Models |-> 0],
     prompt |-> 0, completion |-> 0,
     latencies |-> [d \in Latencies |-> 0],
     errors |-> [c \in StatusCodes |-> 0]]

RECURSIVE SumOver(_, _)
SumOver(S, f) ==
    IF S = {} THEN 0
    ELSE LET x == CHOOSE y \in S : TRUE IN f[x] + SumOver(S \ {x}, f)

\* calls of record_request_end, of record_error, and requests still open
Ended == SumOver(Latencies, history.latencies)
Errored == SumOver(StatusCodes, history.errors)
Open == history.starts - Ended - Errored

started == [history EXCEPT !.starts = @ + 1]
started_with(model) == [started EXCEPT !.models[model] = @ + 1]
ended(d, p, c) ==
    [history EXCEPT !.latencies[d] = @ + 1, !.prompt = @ + p,
                    !.completion = @ + c]
errored(status_code) == [history EXCEPT !.errors[status_code] = @ + 1]

\* no stream exists
NoStream ==
    /\ engine = "none"
    /\ content = <<>>
    /\ latency = instant
    /\ usage = None
    /\ on_complete = None
    /\ reasoning = None
    /\ pc = "none"
    /\ tokens = <<>>
    /\ summary_tokens = <<>>
    /\ sequence_counter = 0
    /\ message_output_index = None
    /\ all_output_items = <<>>
    /\ timer = None
    /\ frames = <<>>
    /\ sleeps = <<>>
    /\ callback_calls = 0

\* no caller of Stats and no request
ServerIdle ==
    /\ stats = Stats_new
    /\ now = Epoch
    /\ writers = <<>>
    /\ requests = <<>>
    /\ history = NoHistory
    /\ config = Config_default
    /\ injector = NoInjector
    /\ unit = NoUnit
    /\ reader = NoReader

streamUnchanged ==
    UNCHANGED <<engine, content, latency, usage, on_complete, reasoning, pc,
                tokens, summary_tokens, sequence_counter,
                message_output_index, all_output_items, timer, frames, sleeps,
                callback_calls>>

\* the clock moves on
Tick ==
    /\ \E d \in ClockSteps :
          /\ now + d <= Epoch + from_secs(WINDOW_SECS) * MaxWindows
          /\ now' = now + d
    /\ UNCHANGED <<stats, writers, requests, history, config, injector, unit,
                   reader>>
    /\ streamUnchanged

\* how far the clock moves between two calls when the rolling window is
\* watched: just short of the window, the window, and just past it
WindowSteps == {from_secs(WINDOW_SECS) - 1, from_secs(WINDOW_SECS),
                from_secs(WINDOW_SECS) + 1}

\* the clock moves on, up to one window further than Tick takes it
WindowTick ==
    /\ \E d \in WindowSteps :
          /\ now + d <= Epoch + from_secs(WINDOW_SECS) * (MaxWindows + 1)
          /\ now' = now + d
    /\ UNCHANGED <<stats, writers, requests, history, config, injector, unit,
                   reader>>
    /\ streamUnchanged

(* One thread calling Stats, as the unit tests of stats.rs and
   tests/integration_test.rs do: every request is started and then either
   ended or failed. *)

SeqCalls == history.starts + Ended + Errored

SeqRecordRequestStart ==
    /\ SeqCalls < MaxCalls
    /\ \E a \in StartArgs :
          /\ stats' = record_request_start(stats, a[1], a[2], a[3], now)
          /\ history' = started_with(a[1])
    /\ UNCHANGED <<now, writers, requests, config, injector, unit, reader>>
    /\ streamUnchanged

SeqRecordRequestEnd ==
    /\ SeqCalls < MaxCalls /\ Open > 0
    /\ \E d \in Latencies, tc \in TokenCounts :
          /\ stats' = record_request_end(stats, d, tc[1], tc[2])
          /\ history' = ended(d, tc[1], tc[2])
    /\ UNCHANGED <<now, writers, requests, config, injector, unit, reader>>
    /\ streamUnchanged

SeqRecordError ==
    /\ SeqCalls < MaxCalls /\ Open > 0
    /\ \E status_code \in StatusCodes :
          /\ stats' = record_error(stats, status_code)
          /\ history' = errored(status_code)
    /\ UNCHANGED <<now, writers, requests, config, injector, unit, reader>>
    /\ streamUnchanged

SeqNext ==
    \/ SeqRecordRequestStart
    \/ SeqRecordRequestEnd
    \/ SeqRecordError
    \/ Tick

\* Stats::new and a caller that has not called yet
SeqInit ==
    /\ stats = Stats_new
    /\ now = Epoch
    /\ writers = <<>>
    /\ requests = <<>>
    /\ history = NoHistory
    /\ config = Config_default
    /\ injector = NoInjector
    /\ unit = NoUnit
    /\ reader = NoReader
    /\ NoStream

(* Several threads calling Stats at once, as test_stats_concurrent_access
   does: each writer repeats record_request_start, record_request_end.  A
   step of a writer is one atomic operation of its call. *)

Writers == 0..(NumWriters - 1)

\* the arguments writer i passes to record_request_start
WriterModel(i) == IF i % 2 = 0 THEN "gpt-4" ELSE "claude-opus"
WriterStreaming(i) == i % 3 = 0
WriterEndpoint(i) == IF i % 2 = 0 THEN "ChatCompletions" ELSE "Responses"
\* the arguments writer i passes to record_request_end
WriterLatency(i) == from_millis(100 * ((i % 3) + 1))
WriterTokens == <<10, 20>>

\* the write lock of request_times is held from the push to the retain
TimesLocked == \E v \in Writers : writers[v].call.pc = "times_retain"

\* writer w calls record_request_start and performs its first operation
WriterStart(w) ==
    /\ writers[w].call.pc = "returned" /\ writers[w].next = "start"
    /\ writers[w].iterations < Iterations
    /\ LET r == stats_step(stats,
                           enter_record_request_start(
                               WriterModel(w), WriterStreaming(w),
                               WriterEndpoint(w)),
                           now)
       IN /\ stats' = r.stats
          /\ writers' = [writers EXCEPT ![w].call = r.local,
                                        ![w].next = "end"]
    /\ history' = started_with(WriterModel(w))
    /\ UNCHANGED <<now, requests, config, injector, unit, reader>>
    /\ streamUnchanged

\* writer w calls record_request_end and performs its first operation
WriterEnd(w) ==
    /\ writers[w].call.pc = "returned" /\ writers[w].next = "end"
    /\ LET d == WriterLatency(w)
           tc == WriterTokens
           r == stats_step(stats, enter_record_request_end(d, tc[1], tc[2]),
                           now)
       IN /\ stats' = r.stats
          /\ writers' = [writers EXCEPT ![w].call = r.local,
                                        ![w].next = "start",
                                        ![w].iterations = @ + 1]
          /\ history' = ended(d, tc[1], tc[2])
    /\ UNCHANGED <<now, requests, config, injector, unit, reader>>
    /\ streamUnchanged

\* writer w performs the next operation of the call it is in
WriterStep(w) ==
    /\ writers[w].call.pc # "returned"
    /\ writers[w].call.pc = "times_push" => ~TimesLocked
    /\ LET r == stats_step(stats, writers[w].call, now)
       IN /\ stats' = r.stats
          /\ writers' = [writers EXCEPT ![w].call = r.local]
    /\ UNCHANGED <<now, requests, history, config, injector, unit, reader>>
    /\ streamUnchanged

\* the status writer i passes to record_error
WriterStatus(i) == IF i % 2 = 1 THEN 500 ELSE 429
\* the writers whose requests can end with an error
WriterErrs(i) == i % 2 = 1

\* writer w calls record_error(status_code) for the request it has open
\* and performs the first operation of the call
WriterFail(w, status_code) ==
    /\ writers[w].call.pc = "returned" /\ writers[w].next = "end"
    /\ LET r == stats_step(stats, enter_record_error(status_code), now)
       IN /\ stats' = r.stats
          /\ writers' = [writers EXCEPT ![w].call = r.local,
                                        ![w].next = "start",
                                        ![w].iterations = @ + 1]
          /\ history' = errored(status_code)
    /\ UNCHANGED <<now, requests, config, injector, unit, reader>>
    /\ streamUnchanged

\* a writer whose requests can fail does so with its own status
WriterError(w) == WriterErrs(w) /\ WriterFail(w, WriterStatus(w))

\* a thread calls snapshot() while the writers run, and performs its
\* first load
ReaderStart ==
    /\ reader = NoReader
    /\ reader' = snapshot_step(stats, enter_snapshot)
    /\ UNCHANGED <<stats, now, writers, requests, history, config, injector,
                   unit>>
    /\ streamUnchanged

\* the thread performs the next load of its snapshot; the read lock of
\* request_times waits for the writer that holds the write lock
ReaderStep ==
    /\ reader # NoReader
    /\ reader.pc # "returned"
    /\ reader.pc = "requests_per_second" => ~TimesLocked
    /\ reader' = snapshot_step(stats, reader)
    /\ UNCHANGED <<stats, now, writers, requests, history, config, injector,
                   unit>>
    /\ streamUnchanged

WritersNext ==
    \/ \E w \in Writers : WriterStart(w)
    \/ \E w \in Writers : WriterEnd(w)
    \/ \E w \in Writers : WriterStep(w)

\* Stats::new shared by the writers, none of which has called yet
WritersInit ==
    /\ stats = Stats_new
    /\ now = Epoch
    /\ writers = [w \in Writers |->
                     [call |-> NoCall, next |-> "start", iterations |-> 0]]
    /\ requests = <<>>
    /\ history = NoHistory
    /\ config = Config_default
    /\ injector = NoInjector
    /\ unit = NoUnit
    /\ reader = NoReader
    /\ NoStream

\* every writer is between two calls
Quiescent == \A w \in Writers : writers[w].call.pc = "returned"
\* every writer has finished its loop
AllFinished == \A w \in Writers :
    writers[w].call.pc = "returned" /\ writers[w].iterations = Iterations

----------------------------------------------------------------------------
(* What a stream leaves alone, and the completion callback *)

serverUnchanged ==
    UNCHANGED <<stats, now, writers, requests, history, config, injector,
                unit, reader>>

\* the request whose response body the stream is
\* the two counts of a usage, whichever names its fields have
prompt_of(u) ==
    IF "prompt_tokens" \in DOMAIN u THEN u.prompt_tokens ELSE u.input_tokens
completion_of(u) ==
    IF "completion_tokens" \in DOMAIN u THEN u.completion_tokens
    ELSE u.output_tokens

StreamOwner == CHOOSE i \in DOMAIN requests : requests[i].stream_built

\* the closure the handlers pass to on_complete:
\* `stats.record_request_end(request_start.elapsed(), prompt_tok, completion_tok)`
record_request_end_closure ==
    LET i == StreamOwner
        r == requests[i]
    IN /\ stats' = record_request_end(stats, now - r.request_start,
                                      prompt_of(unwrap(r.usage)),
                                      completion_of(unwrap(r.usage)))
       /\ requests' = [requests EXCEPT
                          ![i].calls = Append(@, [call |-> "record_request_end"])]

\* `callback()`: a test callback only counts, the handlers' closure records
\* the end of the request
callback ==
    /\ IF unwrap(on_complete) = "record_request_end"
       THEN record_request_end_closure
       ELSE UNCHANGED <<stats, requests>>
    /\ UNCHANGED <<now, writers, history, config, injector, unit, reader>>

----------------------------------------------------------------------------
(* Values shared by both engines *)

\* yield: hand one frame to the consumer and park at `next`
Yield(frame, next) ==
    /\ frames' = Append(frames, frame)
    /\ pc' = next

\* sleep(d).await: park on the timer
Sleep(kind, d, next) ==
    /\ timer' = Some(d)
    /\ sleeps' = Append(sleeps, <<kind, Len(frames)>>)
    /\ pc' = next

\* mutant: the generator runs its completion callback when it is dropped
Dropped_RunsCallback ==
    /\ pc \notin {"none", "built", "ended", "dropped"}
    /\ pc' = "dropped"
    /\ timer' = None
    /\ callback_calls' = callback_calls + 1
    /\ UNCHANGED <<engine, content, latency, usage, on_complete, reasoning,
                   tokens, summary_tokens, sequence_counter,
                   message_output_index, all_output_items, frames, sleeps>>
    /\ serverUnchanged

\* The consumer drops the stream (the client closed the connection): the
\* generator is dropped at the suspension point it is parked at, be it a
\* yield or a sleep.  Its locals go with it, the pending Sleep and the
\* uncalled on_complete included, and it is never polled again.
Dropped ==
    /\ pc \notin {"none", "built", "ended", "dropped"}
    /\ pc' = "dropped"
    /\ timer' = None
    /\ UNCHANGED <<engine, content, latency, usage, on_complete, reasoning,
                   tokens, summary_tokens, sequence_counter,
                   message_output_index, all_output_items, frames, sleeps,
                   callback_calls>>
    /\ serverUnchanged

----------------------------------------------------------------------------
(* Chat stream: ChatCompletionChunk and its SSE framing *)

ChatUsage == [prompt_tokens |-> 10, completion_tokens |-> 5, total_tokens |-> 15]

\* ChatCompletionChunk::new (id, model and created are the same on every chunk)
ChatCompletionChunk_new ==
    [object |-> "chat.completion.chunk", choices |-> <<>>, usage |-> None]

with_role(chunk) ==
    [chunk EXCEPT !.choices =
        <<[index |-> 0,
           delta |-> [role |-> Some("assistant"), content |-> None],
           finish_reason |-> None]>>]

with_content(chunk, token) ==
    [chunk EXCEPT !.choices =
        <<[index |-> 0,
           delta |-> [role |-> None, content |-> Some(token)],
           finish_reason |-> None]>>]

with_finish(chunk, reason) ==
    [chunk EXCEPT !.choices =
        <<[index |-> 0,
           delta |-> [role |-> None, content |-> None],
           finish_reason |-> Some(reason)]>>]

with_usage(chunk, u) == [chunk EXCEPT !.usage = Some(u)]

\* format_sse: "data: <json>\n\n"
format_sse(chunk) == [sse |-> "data", json |-> chunk]

\* the literal frame "data: [DONE]\n\n"
DoneMarker == [sse |-> "data", literal |-> "[DONE]"]

\* the finish chunk, with the usage embedded when one was supplied
finish_chunk ==
    LET c == with_finish(ChatCompletionChunk_new, "stop") IN
    IF is_some(usage) THEN with_usage(c, unwrap(usage)) ELSE c

\* mutant: the callback is dropped without being called
ChatOnComplete_Never == UNCHANGED callback_calls /\ serverUnchanged

\* TokenStreamBuilder::on_complete: the optional completion callback, called
\* once after the last frame (the builder method is used by
\* cli/handlers.rs and tests/integration_test.rs; modelled after
\* ResponsesTokenStream)
ChatOnComplete ==
    IF is_some(on_complete)
    THEN callback_calls' = callback_calls + 1 /\ callback
    ELSE UNCHANGED callback_calls /\ serverUnchanged

\* the locals of the responses generator, which the chat generator lacks
respUnchanged ==
    UNCHANGED <<summary_tokens, sequence_counter, message_output_index,
                all_output_items>>
\* what the stream was built from
cfgUnchanged ==
    UNCHANGED <<engine, content, latency, usage, on_complete, reasoning>>

\* `yield format_sse(&role_chunk)`
ChatYieldRole == Yield(format_sse(with_role(ChatCompletionChunk_new)), "role")

\* `yield format_sse(&content_chunk)` for the token the loop is at
ChatYieldContent ==
    /\ Yield(format_sse(with_content(ChatCompletionChunk_new, Head(tokens))),
             "content")
    /\ tokens' = Tail(tokens)

\* TokenStream::into_stream up to the construction of the generator: the
\* content is tokenized before the first poll
ChatIntoStream ==
    /\ engine = "chat" /\ pc = "built"
    /\ tokens' = tokenize(content)
    /\ pc' = "start"
    /\ UNCHANGED <<timer, sleeps, frames, callback_calls>>
    /\ cfgUnchanged /\ respUnchanged
    /\ serverUnchanged

\* first poll: sample TTFT, sleep on it or go on to the role chunk
ChatStart ==
    /\ engine = "chat" /\ pc = "start"
    /\ \E ttft \in sample_ttft(latency) :
          IF ttft # 0
          THEN Sleep("ttft", ttft, "ttft_sleep") /\ UNCHANGED frames
          ELSE ChatYieldRole /\ UNCHANGED <<timer, sleeps>>
    /\ UNCHANGED <<tokens, callback_calls>>
    /\ cfgUnchanged /\ respUnchanged
    /\ serverUnchanged

\* the TTFT timer fired
ChatWakeTtft ==
    /\ engine = "chat" /\ pc = "ttft_sleep"
    /\ timer' = None
    /\ ChatYieldRole
    /\ UNCHANGED <<tokens, sleeps, callback_calls>>
    /\ cfgUnchanged /\ respUnchanged
    /\ serverUnchanged

\* resumed after the role chunk or a content chunk: next loop iteration, or
\* the finish chunk when the tokens are exhausted
ChatNextToken ==
    /\ engine = "chat" /\ pc \in {"role", "content"}
    /\ IF tokens # <<>>
       THEN \E tbt \in sample_tbt(latency) :
              IF tbt # 0
              THEN Sleep("tbt", tbt, "tbt_sleep") /\ UNCHANGED <<frames, tokens>>
              ELSE ChatYieldContent /\ UNCHANGED <<timer, sleeps>>
       ELSE /\ Yield(format_sse(finish_chunk), "finish")
            /\ UNCHANGED <<tokens, timer, sleeps>>
    /\ UNCHANGED callback_calls
    /\ cfgUnchanged /\ respUnchanged
    /\ serverUnchanged

\* a TBT timer fired
ChatWakeTbt ==
    /\ engine = "chat" /\ pc = "tbt_sleep"
    /\ timer' = None
    /\ ChatYieldContent
    /\ UNCHANGED <<sleeps, callback_calls>>
    /\ cfgUnchanged /\ respUnchanged
    /\ serverUnchanged

\* mutant: the generator ends after the finish chunk without the [DONE] marker
ChatYieldDone_NoMarker ==
    /\ engine = "chat" /\ pc = "finish"
    /\ pc' = "done"
    /\ UNCHANGED <<tokens, timer, sleeps, frames, callback_calls>>
    /\ cfgUnchanged /\ respUnchanged
    /\ serverUnchanged

\* resumed after the finish chunk: `yield "data: [DONE]\n\n"`
ChatYieldDone ==
    /\ engine = "chat" /\ pc = "finish"
    /\ Yield(DoneMarker, "done")
    /\ UNCHANGED <<tokens, timer, sleeps, callback_calls>>
    /\ cfgUnchanged /\ respUnchanged
    /\ serverUnchanged

\* resumed after [DONE]: the generator body ends, the stream returns None
ChatEnd ==
    /\ engine = "chat" /\ pc = "done"
    /\ ChatOnComplete
    /\ pc' = "ended"
    /\ UNCHANGED <<tokens, timer, sleeps, frames>>
    /\ cfgUnchanged /\ respUnchanged

\* the consumer drops the stream
ChatDrop == engine = "chat" /\ Dropped

ChatNext ==
    \/ ChatIntoStream
    \/ ChatStart
    \/ ChatWakeTtft
    \/ ChatNextToken
    \/ ChatWakeTbt
    \/ ChatYieldDone
    \/ ChatEnd
    \/ ChatDrop

\* TokenStreamBuilder::build
ChatInit ==
    /\ engine = "chat"
    /\ content \in StringsUpTo(MaxContentLen)
    /\ latency \in LatencyProfiles
    /\ usage \in {None, Some(ChatUsage)}
    /\ on_complete \in {None, Some("cb")}
    /\ reasoning = None
    /\ pc = "built"
    /\ tokens = <<>>
    /\ summary_tokens = <<>>
    /\ sequence_counter = 0
    /\ message_output_index = None
    /\ all_output_items = <<>>
    /\ timer = None
    /\ frames = <<>>
    /\ sleeps = <<>>
    /\ callback_calls = 0
    /\ ServerIdle

----------------------------------------------------------------------------
(* Responses stream: items, events and their SSE framing *)

ResponsesUsageValue ==
    [input_tokens |-> 10, output_tokens |-> 5, total_tokens |-> 30,
     output_tokens_details |-> Some([reasoning_tokens |-> 15])]

\* OutputItem::Reasoning, serialized with tag type = "reasoning"
ReasoningItem(status, summary) ==
    [type |-> "reasoning", id |-> "rs_1", status |-> status, summary |-> summary]

\* OutputItem::Message, serialized with tag type = "message"
MessageItem(status, parts) ==
    [type |-> "message", id |-> "msg_1", role |-> "assistant",
     status |-> status, content |-> parts]

\* OutputContentPart::OutputText
OutputText(text) == [type |-> "output_text", text |-> text]

\* ReasoningSummary
SummaryPart(text) == [type |-> "summary_text", text |-> text]

\* the ResponsesResponse literals of into_stream
ResponseObject(status, output, output_text, u) ==
    [id |-> "resp_1", object |-> "response", status |-> status,
     output |-> output, output_text |-> output_text, usage |-> u]

initial_response == ResponseObject("in_progress", <<>>, None, None)

\* "event: <type>\ndata: <json>\n\n"
SseEvent(type, json) == [event |-> type, data |-> json]

response_created(response) ==
    SseEvent("response.created",
             [type |-> "response.created", response |-> response])

response_in_progress(response) ==
    SseEvent("response.in_progress",
             [type |-> "response.in_progress", response |-> response])

output_item_added(output_index, item) ==
    SseEvent("response.output_item.added",
             [type |-> "response.output_item.added",
              output_index |-> output_index, item |-> item])

content_part_added(output_index, content_index, part) ==
    SseEvent("response.content_part.added",
             [type |-> "response.content_part.added",
              output_index |-> output_index, content_index |-> content_index,
              part |-> part])

output_text_delta(output_index, content_index, delta, sequence_number) ==
    SseEvent("response.output_text.delta",
             [type |-> "response.output_text.delta",
              output_index |-> output_index, content_index |-> content_index,
              delta |-> delta, sequence_number |-> sequence_number])

output_text_done(output_index, content_index, text) ==
    SseEvent("response.output_text.done",
             [type |-> "response.output_text.done",
              output_index |-> output_index, content_index |-> content_index,
              text |-> text])

content_part_done(output_index, content_index, part) ==
    SseEvent("response.content_part.done",
             [type |-> "response.content_part.done",
              output_index |-> output_index, content_index |-> content_index,
              part |-> part])

output_item_done(output_index, item) ==
    SseEvent("response.output_item.done",
             [type |-> "response.output_item.done",
              output_index |-> output_index, item |-> item])

response_completed(response) ==
    SseEvent("response.completed",
             [type |-> "response.completed", response |-> response])

reasoning_summary_part_added(output_index, content_index, part) ==
    SseEvent("response.reasoning_summary_part.added",
             [type |-> "response.reasoning_summary_part.added",
              output_index |-> output_index, content_index |-> content_index,
              part |-> part])

reasoning_summary_text_delta(output_index, content_index, delta, sequence_number) ==
    SseEvent("response.reasoning_summary_text.delta",
             [type |-> "response.reasoning_summary_text.delta",
              output_index |-> output_index, content_index |-> content_index,
              delta |-> delta, sequence_number |-> sequence_number])

reasoning_summary_text_done(output_index, content_index, text) ==
    SseEvent("response.reasoning_summary_text.done",
             [type |-> "response.reasoning_summary_text.done",
              output_index |-> output_index, content_index |-> content_index,
              text |-> text])

reasoning_summary_part_done(output_index, content_index, part) ==
    SseEvent("response.reasoning_summary_part.done",
             [type |-> "response.reasoning_summary_part.done",
              output_index |-> output_index, content_index |-> content_index,
              part |-> part])

----------------------------------------------------------------------------
(* Responses stream: ResponsesTokenStream::into_stream *)

summary_text == unwrap(reasoning).summary_text

\* mutant: a summary part is built even when no summary text was given
final_summary_AlwaysSome ==
    Some(<<SummaryPart(IF is_some(summary_text) THEN unwrap(summary_text)
                       ELSE <<>>)>>)

\* `final_summary`: Some(vec![final_part]) when a summary was streamed
final_summary ==
    IF is_some(summary_text)
    THEN Some(<<SummaryPart(unwrap(summary_text))>>)
    ELSE None

completed_reasoning_item == ReasoningItem("completed", final_summary)

final_content_part == OutputText(content)

final_message_item == MessageItem("completed", <<final_content_part>>)

\* the callback of with_on_complete, taken out of the Option and called
RespOnComplete ==
    IF is_some(on_complete)
    THEN callback_calls' = callback_calls + 1 /\ callback
    ELSE UNCHANGED callback_calls /\ serverUnchanged

\* ResponsesTokenStream::into_stream up to the construction of the
\* generator: the content is tokenized before the first poll
RespIntoStream ==
    /\ engine = "responses" /\ pc = "built"
    /\ tokens' = responses_tokenize(content)
    /\ pc' = "start"
    /\ UNCHANGED <<timer, sleeps, frames, callback_calls>>
    /\ cfgUnchanged /\ respUnchanged
    /\ serverUnchanged

\* first poll: `yield response_created(initial_response)`
RespStart ==
    /\ engine = "responses" /\ pc = "start"
    /\ Yield(response_created(initial_response), "created")
    /\ UNCHANGED <<tokens, timer, sleeps, callback_calls>>
    /\ cfgUnchanged /\ respUnchanged
    /\ serverUnchanged

\* mutant: the stream sleeps on the sampled TTFT even when the sample is zero
RespSampleTtft_SleepsOnZero ==
    /\ engine = "responses" /\ pc = "created"
    /\ \E ttft \in sample_ttft(latency) :
          Sleep("ttft", ttft, "ttft_sleep") /\ UNCHANGED frames
    /\ UNCHANGED <<tokens, callback_calls>>
    /\ cfgUnchanged /\ respUnchanged
    /\ serverUnchanged

\* resumed after response.created: sample TTFT, sleep or go on
RespSampleTtft ==
    /\ engine = "responses" /\ pc = "created"
    /\ \E ttft \in sample_ttft(latency) :
          IF ttft # 0
          THEN Sleep("ttft", ttft, "ttft_sleep") /\ UNCHANGED frames
          ELSE /\ Yield(response_in_progress(initial_response), "in_progress")
               /\ UNCHANGED <<timer, sleeps>>
    /\ UNCHANGED <<tokens, callback_calls>>
    /\ cfgUnchanged /\ respUnchanged
    /\ serverUnchanged

\* the TTFT timer fired: `yield response_in_progress(..)`
RespWakeTtft ==
    /\ engine = "responses" /\ pc = "ttft_sleep"
    /\ timer' = None
    /\ Yield(response_in_progress(initial_response), "in_progress")
    /\ UNCHANGED <<tokens, sleeps, callback_calls>>
    /\ cfgUnchanged /\ respUnchanged
    /\ serverUnchanged

\* mutant: message_output_index is 0 whether or not reasoning is configured
RespOpenFirstItem_IndexZero ==
    /\ engine = "responses" /\ pc = "in_progress"
    /\ sequence_counter' = 0
    /\ all_output_items' = <<>>
    /\ message_output_index' = Some(0)
    /\ IF is_some(reasoning)
       THEN Yield(output_item_added(0, ReasoningItem("in_progress", None)),
                  "r_item_added")
       ELSE Yield(output_item_added(0, MessageItem("in_progress", <<>>)),
                  "m_item_added")
    /\ UNCHANGED <<tokens, summary_tokens, timer, sleeps, callback_calls>>
    /\ cfgUnchanged
    /\ serverUnchanged

\* resumed after response.in_progress: the locals are set up, then the first
\* output_item.added: the reasoning item when reasoning is configured, the
\* message item otherwise
RespOpenFirstItem ==
    /\ engine = "responses" /\ pc = "in_progress"
    /\ sequence_counter' = 0
    /\ all_output_items' = <<>>
    /\ IF is_some(reasoning)
       THEN /\ message_output_index' = Some(1)
            /\ Yield(output_item_added(0, ReasoningItem("in_progress", None)),
                     "r_item_added")
       ELSE /\ message_output_index' = Some(0)
            /\ Yield(output_item_added(0, MessageItem("in_progress", <<>>)),
                     "m_item_added")
    /\ UNCHANGED <<tokens, summary_tokens, timer, sleeps, callback_calls>>
    /\ cfgUnchanged
    /\ serverUnchanged

\* resumed after the reasoning output_item.added
RespOpenSummary ==
    /\ engine = "responses" /\ pc = "r_item_added"
    /\ IF is_some(summary_text)
       THEN Yield(reasoning_summary_part_added(0, 0, SummaryPart(<<>>)),
                  "r_part_added")
       ELSE Yield(output_item_done(0, completed_reasoning_item), "r_item_done")
    /\ UNCHANGED <<tokens, timer, sleeps, callback_calls>>
    /\ cfgUnchanged /\ respUnchanged
    /\ serverUnchanged

\* `yield reasoning_summary_text_delta(0, 0, token, sequence_counter)`
RespYieldSummaryDelta(toks, seq) ==
    /\ Yield(reasoning_summary_text_delta(0, 0, Head(toks), seq), "r_delta")
    /\ summary_tokens' = Tail(toks)
    /\ sequence_counter' = seq

\* head of `for token in &summary_tokens`, with the locals as they stand
RespSummaryLoop(toks, seq) ==
    IF toks # <<>>
    THEN \E tbt \in sample_tbt(latency) :
           IF tbt # 0
           THEN /\ Sleep("tbt", tbt, "r_tbt_sleep")
                /\ summary_tokens' = toks
                /\ sequence_counter' = seq
                /\ UNCHANGED frames
           ELSE RespYieldSummaryDelta(toks, seq) /\ UNCHANGED <<timer, sleeps>>
    ELSE /\ Yield(reasoning_summary_text_done(0, 0, unwrap(summary_text)),
                  "r_text_done")
         /\ summary_tokens' = toks
         /\ sequence_counter' = seq
         /\ UNCHANGED <<timer, sleeps>>

\* resumed after reasoning_summary_part.added: tokenize the summary, enter
\* the loop
RespSummaryFirst ==
    /\ engine = "responses" /\ pc = "r_part_added"
    /\ RespSummaryLoop(tokenize_text(unwrap(summary_text)), sequence_counter)
    /\ UNCHANGED <<tokens, message_output_index, all_output_items,
                   callback_calls>>
    /\ cfgUnchanged
    /\ serverUnchanged

\* resumed after a summary delta: `sequence_counter += 1`, next iteration
RespSummaryNext ==
    /\ engine = "responses" /\ pc = "r_delta"
    /\ RespSummaryLoop(summary_tokens, sequence_counter + 1)
    /\ UNCHANGED <<tokens, message_output_index, all_output_items,
                   callback_calls>>
    /\ cfgUnchanged
    /\ serverUnchanged

\* a TBT timer of the summary loop fired
RespWakeSummaryTbt ==
    /\ engine = "responses" /\ pc = "r_tbt_sleep"
    /\ timer' = None
    /\ RespYieldSummaryDelta(summary_tokens, sequence_counter)
    /\ UNCHANGED <<tokens, message_output_index, all_output_items, sleeps,
                   callback_calls>>
    /\ cfgUnchanged
    /\ serverUnchanged

\* resumed after reasoning_summary_text.done
RespCloseSummaryPart ==
    /\ engine = "responses" /\ pc = "r_text_done"
    /\ Yield(reasoning_summary_part_done(0, 0, SummaryPart(unwrap(summary_text))),
             "r_part_done")
    /\ UNCHANGED <<tokens, timer, sleeps, callback_calls>>
    /\ cfgUnchanged /\ respUnchanged
    /\ serverUnchanged

\* mutant: the reasoning item is left open and the message item is opened
RespCloseReasoningItem_Skipped ==
    /\ engine = "responses" /\ pc = "r_part_done"
    /\ Yield(output_item_added(unwrap(message_output_index),
                               MessageItem("in_progress", <<>>)),
             "m_item_added")
    /\ UNCHANGED <<tokens, timer, sleeps, callback_calls>>
    /\ cfgUnchanged /\ respUnchanged
    /\ serverUnchanged

\* resumed after reasoning_summary_part.done
RespCloseReasoningItem ==
    /\ engine = "responses" /\ pc = "r_part_done"
    /\ Yield(output_item_done(0, completed_reasoning_item), "r_item_done")
    /\ UNCHANGED <<tokens, timer, sleeps, callback_calls>>
    /\ cfgUnchanged /\ respUnchanged
    /\ serverUnchanged

\* mutant: the delta counter starts again at 0 for the message phase
RespOpenMessageItem_ResetCounter ==
    /\ engine = "responses" /\ pc = "r_item_done"
    /\ all_output_items' = Append(all_output_items, completed_reasoning_item)
    /\ sequence_counter' = 0
    /\ Yield(output_item_added(unwrap(message_output_index),
                               MessageItem("in_progress", <<>>)),
             "m_item_added")
    /\ UNCHANGED <<tokens, summary_tokens, message_output_index, timer, sleeps,
                   callback_calls>>
    /\ cfgUnchanged
    /\ serverUnchanged

\* resumed after the reasoning output_item.done: push the item, then the
\* message output_item.added
RespOpenMessageItem ==
    /\ engine = "responses" /\ pc = "r_item_done"
    /\ all_output_items' = Append(all_output_items, completed_reasoning_item)
    /\ Yield(output_item_added(unwrap(message_output_index),
                               MessageItem("in_progress", <<>>)),
             "m_item_added")
    /\ UNCHANGED <<tokens, summary_tokens, sequence_counter,
                   message_output_index, timer, sleeps, callback_calls>>
    /\ cfgUnchanged
    /\ serverUnchanged

\* resumed after the message output_item.added
RespOpenContentPart ==
    /\ engine = "responses" /\ pc = "m_item_added"
    /\ Yield(content_part_added(unwrap(message_output_index), 0, OutputText(<<>>)),
             "m_part_added")
    /\ UNCHANGED <<tokens, timer, sleeps, callback_calls>>
    /\ cfgUnchanged /\ respUnchanged
    /\ serverUnchanged

\* `yield output_text_delta(message_output_index, 0, &token, sequence_counter)`
RespYieldTextDelta(toks, seq) ==
    /\ Yield(output_text_delta(unwrap(message_output_index), 0, Head(toks), seq),
             "m_delta")
    /\ tokens' = Tail(toks)
    /\ sequence_counter' = seq

\* head of `for token in tokens`, with the locals as they stand
RespTextLoop(toks, seq) ==
    IF toks # <<>>
    THEN \E tbt \in sample_tbt(latency) :
           IF tbt # 0
           THEN /\ Sleep("tbt", tbt, "m_tbt_sleep")
                /\ tokens' = toks
                /\ sequence_counter' = seq
                /\ UNCHANGED frames
           ELSE RespYieldTextDelta(toks, seq) /\ UNCHANGED <<timer, sleeps>>
    ELSE /\ Yield(output_text_done(unwrap(message_output_index), 0, content),
                  "m_text_done")
         /\ tokens' = toks
         /\ sequence_counter' = seq
         /\ UNCHANGED <<timer, sleeps>>

\* resumed after content_part.added: enter the token loop
RespTextFirst ==
    /\ engine = "responses" /\ pc = "m_part_added"
    /\ RespTextLoop(tokens, sequence_counter)
    /\ UNCHANGED <<summary_tokens, message_output_index, all_output_items,
                   callback_calls>>
    /\ cfgUnchanged
    /\ serverUnchanged

\* resumed after a text delta: `sequence_counter += 1`, next iteration
RespTextNext ==
    /\ engine = "responses" /\ pc = "m_delta"
    /\ RespTextLoop(tokens, sequence_counter + 1)
    /\ UNCHANGED <<summary_tokens, message_output_index, all_output_items,
                   callback_calls>>
    /\ cfgUnchanged
    /\ serverUnchanged

\* a TBT timer of the token loop fired
RespWakeTextTbt ==
    /\ engine = "responses" /\ pc = "m_tbt_sleep"
    /\ timer' = None
    /\ RespYieldTextDelta(tokens, sequence_counter)
    /\ UNCHANGED <<summary_tokens, message_output_index, all_output_items,
                   sleeps, callback_calls>>
    /\ cfgUnchanged
    /\ serverUnchanged

\* mutant: the item is closed before its content part
RespCloseContentPart_ItemFirst ==
    /\ engine = "responses" /\ pc = "m_text_done"
    /\ Yield(output_item_done(unwrap(message_output_index), final_message_item),
             "m_part_done")
    /\ UNCHANGED <<tokens, timer, sleeps, callback_calls>>
    /\ cfgUnchanged /\ respUnchanged
    /\ serverUnchanged

\* resumed after output_text.done
RespCloseContentPart ==
    /\ engine = "responses" /\ pc = "m_text_done"
    /\ Yield(content_part_done(unwrap(message_output_index), 0, final_content_part),
             "m_part_done")
    /\ UNCHANGED <<tokens, timer, sleeps, callback_calls>>
    /\ cfgUnchanged /\ respUnchanged
    /\ serverUnchanged

\* resumed after content_part.done
RespCloseMessageItem ==
    /\ engine = "responses" /\ pc = "m_part_done"
    /\ Yield(output_item_done(unwrap(message_output_index), final_message_item),
             "m_item_done")
    /\ UNCHANGED <<tokens, timer, sleeps, callback_calls>>
    /\ cfgUnchanged /\ respUnchanged
    /\ serverUnchanged

\* mutant: the callback is called before response.completed is yielded
RespComplete_CallbackFirst ==
    /\ engine = "responses" /\ pc = "m_item_done"
    /\ RespOnComplete
    /\ all_output_items' = Append(all_output_items, final_message_item)
    /\ Yield(response_completed(
                ResponseObject("completed", all_output_items', Some(content),
                               Some(usage))),
             "completed")
    /\ UNCHANGED <<tokens, summary_tokens, sequence_counter,
                   message_output_index, timer, sleeps>>
    /\ cfgUnchanged

\* resumed after the message output_item.done: push the item, then
\* response.completed with the full response
RespComplete ==
    /\ engine = "responses" /\ pc = "m_item_done"
    /\ all_output_items' = Append(all_output_items, final_message_item)
    /\ Yield(response_completed(
                ResponseObject("completed", all_output_items', Some(content),
                               Some(usage))),
             "completed")
    /\ UNCHANGED <<tokens, summary_tokens, sequence_counter,
                   message_output_index, timer, sleeps, callback_calls>>
    /\ cfgUnchanged
    /\ serverUnchanged

\* mutant: a `data: [DONE]` terminator after response.completed, as the chat
\* stream has
RespEnd_DoneMarker ==
    /\ engine = "responses" /\ pc = "completed"
    /\ RespOnComplete
    /\ Yield(DoneMarker, "ended")
    /\ UNCHANGED <<tokens, timer, sleeps>>
    /\ cfgUnchanged /\ respUnchanged

\* resumed after response.completed: the callback, then the generator ends
RespEnd ==
    /\ engine = "responses" /\ pc = "completed"
    /\ RespOnComplete
    /\ pc' = "ended"
    /\ UNCHANGED <<tokens, timer, sleeps, frames>>
    /\ cfgUnchanged /\ respUnchanged

\* the consumer drops the stream
RespDrop == engine = "responses" /\ Dropped

RespNext ==
    \/ RespIntoStream
    \/ RespStart
    \/ RespSampleTtft
    \/ RespWakeTtft
    \/ RespOpenFirstItem
    \/ RespOpenSummary
    \/ RespSummaryFirst
    \/ RespSummaryNext
    \/ RespWakeSummaryTbt
    \/ RespCloseSummaryPart
    \/ RespCloseReasoningItem
    \/ RespOpenMessageItem
    \/ RespOpenContentPart
    \/ RespTextFirst
    \/ RespTextNext
    \/ RespWakeTextTbt
    \/ RespCloseContentPart
    \/ RespCloseMessageItem
    \/ RespComplete
    \/ RespEnd
    \/ RespDrop

\* the reasoning configurations a stream can be built with
ReasoningConfigs ==
    {None, Some([summary_text |-> None])}
    \cup {Some([summary_text |-> Some(s)]) : s \in StringsUpTo(MaxSummaryLen)}

\* ResponsesTokenStreamBuilder::build
RespInit ==
    /\ engine = "responses"
    /\ content \in StringsUpTo(MaxContentLen)
    /\ latency \in LatencyProfiles
    /\ usage = ResponsesUsageValue
    /\ on_complete \in {None, Some("cb")}
    /\ reasoning \in ReasoningConfigs
    /\ pc = "built"
    /\ tokens = <<>>
    /\ summary_tokens = <<>>
    /\ sequence_counter = 0
    /\ message_output_index = None
    /\ all_output_items = <<>>
    /\ timer = None
    /\ frames = <<>>
    /\ sleeps = <<>>
    /\ callback_calls = 0
    /\ ServerIdle

----------------------------------------------------------------------------
(* OpenResponses stream: openresponses::StreamEvent and
   OpenResponsesTokenStream::into_stream *)

\* OpenResponsesTokenStream::tokenize
openresponses_tokenize(text) == tokenize_loop(text, <<>>, <<>>)

\* openresponses::Usage as the tests build it
OpenResponsesUsage ==
    [input_tokens |-> 10, output_tokens |-> 5, total_tokens |-> 15,
     input_tokens_details |-> None, output_tokens_details |-> None]

\* OutputContent::OutputText
OutputContent_OutputText(text) ==
    [type |-> "output_text", text |-> text, annotations |-> None]

\* OutputItem::Message with role assistant
OutputItem_Message(parts, status) ==
    [type |-> "message", role |-> "assistant", content |-> parts,
     status |-> Some(status)]

\* openresponses::Response as the stream fills it in
Response(status, completed_at, output, u) ==
    [object |-> "response", status |-> status, completed_at |-> completed_at,
     output |-> output, usage |-> u, metadata |-> None, error |-> None]

\* a StreamEvent with every optional field absent
StreamEvent(type) ==
    [type |-> type, response |-> None, output_index |-> None,
     content_index |-> None, item |-> None, part |-> None, delta |-> None,
     text |-> None, error |-> None]

StreamEvent_response_created(response) ==
    [StreamEvent("response.created") EXCEPT !.response = Some(response)]

StreamEvent_response_in_progress(response) ==
    [StreamEvent("response.in_progress") EXCEPT !.response = Some(response)]

StreamEvent_output_item_added(output_index, item) ==
    [StreamEvent("response.output_item.added") EXCEPT
        !.output_index = Some(output_index), !.item = Some(item)]

StreamEvent_content_part_added(output_index, content_index, part) ==
    [StreamEvent("response.content_part.added") EXCEPT
        !.output_index = Some(output_index),
        !.content_index = Some(content_index), !.part = Some(part)]

StreamEvent_output_text_delta(output_index, content_index, delta) ==
    [StreamEvent("response.output_text.delta") EXCEPT
        !.output_index = Some(output_index),
        !.content_index = Some(content_index), !.delta = Some(delta)]

StreamEvent_output_text_done(output_index, content_index, text) ==
    [StreamEvent("response.output_text.done") EXCEPT
        !.output_index = Some(output_index),
        !.content_index = Some(content_index), !.text = Some(text)]

StreamEvent_content_part_done(output_index, content_index, part) ==
    [StreamEvent("response.content_part.done") EXCEPT
        !.output_index = Some(output_index),
        !.content_index = Some(content_index), !.part = Some(part)]

StreamEvent_output_item_done(output_index, item) ==
    [StreamEvent("response.output_item.done") EXCEPT
        !.output_index = Some(output_index), !.item = Some(item)]

StreamEvent_response_completed(response) ==
    [StreamEvent("response.completed") EXCEPT !.response = Some(response)]

\* openresponses::format_sse: "data: {json}\n\n", no `event:` line
openresponses_format_sse(event) == [sse |-> "data", json |-> event]

\* `full_text` once the token loop is over: every token pushed in order
full_text == Concat(openresponses_tokenize(content))

\* the response of response.created and of response.in_progress
created_response == Response("in_progress", None, <<>>, None)

\* the callback of with_on_complete, taken out of the Option and called
OpenRespOnComplete ==
    IF is_some(on_complete)
    THEN callback_calls' = callback_calls + 1 /\ callback
    ELSE UNCHANGED callback_calls /\ serverUnchanged

\* `yield format_sse(&StreamEvent::response_created(created_response))`
OpenRespYieldCreated ==
    Yield(openresponses_format_sse(
              StreamEvent_response_created(created_response)), "created")

\* `yield format_sse(&StreamEvent::output_text_delta(0, 0, token))`
OpenRespYieldDelta ==
    /\ Yield(openresponses_format_sse(
                 StreamEvent_output_text_delta(0, 0, Head(tokens))), "m_delta")
    /\ tokens' = Tail(tokens)

\* OpenResponsesTokenStream::into_stream up to the construction of the
\* generator: the content is tokenized before the first poll
OpenRespIntoStream ==
    /\ engine = "openresponses" /\ pc = "built"
    /\ tokens' = openresponses_tokenize(content)
    /\ pc' = "start"
    /\ UNCHANGED <<timer, sleeps, frames, callback_calls>>
    /\ cfgUnchanged /\ respUnchanged /\ serverUnchanged

\* first poll: sample TTFT, sleep on it or go on to response.created
OpenRespStart ==
    /\ engine = "openresponses" /\ pc = "start"
    /\ \E ttft \in sample_ttft(latency) :
          IF ttft # 0
          THEN Sleep("ttft", ttft, "ttft_sleep") /\ UNCHANGED frames
          ELSE OpenRespYieldCreated /\ UNCHANGED <<timer, sleeps>>
    /\ UNCHANGED <<tokens, callback_calls>>
    /\ cfgUnchanged /\ respUnchanged /\ serverUnchanged

\* the TTFT timer fired
OpenRespWakeTtft ==
    /\ engine = "openresponses" /\ pc = "ttft_sleep"
    /\ timer' = None
    /\ OpenRespYieldCreated
    /\ UNCHANGED <<tokens, sleeps, callback_calls>>
    /\ cfgUnchanged /\ respUnchanged /\ serverUnchanged

\* resumed after response.created: `yield response_in_progress(..)`
OpenRespInProgress ==
    /\ engine = "openresponses" /\ pc = "created"
    /\ Yield(openresponses_format_sse(
                 StreamEvent_response_in_progress(created_response)),
             "in_progress")
    /\ UNCHANGED <<tokens, timer, sleeps, callback_calls>>
    /\ cfgUnchanged /\ respUnchanged /\ serverUnchanged

\* resumed after response.in_progress: the message item opens at index 0
OpenRespOpenItem ==
    /\ engine = "openresponses" /\ pc = "in_progress"
    /\ Yield(openresponses_format_sse(
                 StreamEvent_output_item_added(
                     0, OutputItem_Message(<<>>, "in_progress"))),
             "m_item_added")
    /\ UNCHANGED <<tokens, timer, sleeps, callback_calls>>
    /\ cfgUnchanged /\ respUnchanged /\ serverUnchanged

\* resumed after output_item.added: the content part opens
OpenRespOpenContentPart ==
    /\ engine = "openresponses" /\ pc = "m_item_added"
    /\ Yield(openresponses_format_sse(
                 StreamEvent_content_part_added(
                     0, 0, OutputContent_OutputText(<<>>))),
             "m_part_added")
    /\ UNCHANGED <<tokens, timer, sleeps, callback_calls>>
    /\ cfgUnchanged /\ respUnchanged /\ serverUnchanged

\* resumed after content_part.added or a delta: next loop iteration, or
\* output_text.done when the tokens are exhausted
OpenRespNextToken ==
    /\ engine = "openresponses" /\ pc \in {"m_part_added", "m_delta"}
    /\ IF tokens # <<>>
       THEN \E tbt \in sample_tbt(latency) :
              IF tbt # 0
              THEN Sleep("tbt", tbt, "m_tbt_sleep")
                   /\ UNCHANGED <<frames, tokens>>
              ELSE OpenRespYieldDelta /\ UNCHANGED <<timer, sleeps>>
       ELSE /\ Yield(openresponses_format_sse(
                         StreamEvent_output_text_done(0, 0, full_text)),
                     "m_text_done")
            /\ UNCHANGED <<tokens, timer, sleeps>>
    /\ UNCHANGED callback_calls
    /\ cfgUnchanged /\ respUnchanged /\ serverUnchanged

\* a TBT timer fired
OpenRespWakeTbt ==
    /\ engine = "openresponses" /\ pc = "m_tbt_sleep"
    /\ timer' = None
    /\ OpenRespYieldDelta
    /\ UNCHANGED <<sleeps, callback_calls>>
    /\ cfgUnchanged /\ respUnchanged /\ serverUnchanged

\* resumed after output_text.done: the content part closes
OpenRespCloseContentPart ==
    /\ engine = "openresponses" /\ pc = "m_text_done"
    /\ Yield(openresponses_format_sse(
                 StreamEvent_content_part_done(
                     0, 0, OutputContent_OutputText(full_text))),
             "m_part_done")
    /\ UNCHANGED <<tokens, timer, sleeps, callback_calls>>
    /\ cfgUnchanged /\ respUnchanged /\ serverUnchanged

\* resumed after content_part.done: the message item closes
OpenRespCloseItem ==
    /\ engine = "openresponses" /\ pc = "m_part_done"
    /\ Yield(openresponses_format_sse(
                 StreamEvent_output_item_done(
                     0, OutputItem_Message(
                            <<OutputContent_OutputText(full_text)>>,
                            "completed"))),
             "m_item_done")
    /\ UNCHANGED <<tokens, timer, sleeps, callback_calls>>
    /\ cfgUnchanged /\ respUnchanged /\ serverUnchanged

\* resumed after output_item.done: response.completed with the usage
OpenRespComplete ==
    /\ engine = "openresponses" /\ pc = "m_item_done"
    /\ Yield(openresponses_format_sse(
                 StreamEvent_response_completed(
                     Response("completed", Some("completed_at"),
                              <<OutputItem_Message(
                                    <<OutputContent_OutputText(full_text)>>,
                                    "completed")>>,
                              usage))),
             "completed")
    /\ UNCHANGED <<tokens, timer, sleeps, callback_calls>>
    /\ cfgUnchanged /\ respUnchanged /\ serverUnchanged

\* mutant: the generator goes on to the callback without the [DONE] frame
OpenRespYieldDone_NoMarker ==
    /\ engine = "openresponses" /\ pc = "completed"
    /\ pc' = "done"
    /\ UNCHANGED <<tokens, timer, sleeps, frames, callback_calls>>
    /\ cfgUnchanged /\ respUnchanged /\ serverUnchanged

\* resumed after response.completed: `yield "data: [DONE]\n\n"`
OpenRespYieldDone ==
    /\ engine = "openresponses" /\ pc = "completed"
    /\ Yield(DoneMarker, "done")
    /\ UNCHANGED <<tokens, timer, sleeps, callback_calls>>
    /\ cfgUnchanged /\ respUnchanged /\ serverUnchanged

\* resumed after [DONE]: the callback, then the generator ends
OpenRespEnd ==
    /\ engine = "openresponses" /\ pc = "done"
    /\ OpenRespOnComplete
    /\ pc' = "ended"
    /\ UNCHANGED <<tokens, timer, sleeps, frames>>
    /\ cfgUnchanged /\ respUnchanged

\* the consumer drops the stream
OpenRespDrop == engine = "openresponses" /\ Dropped

OpenRespNext ==
    \/ OpenRespIntoStream
    \/ OpenRespStart
    \/ OpenRespWakeTtft
    \/ OpenRespInProgress
    \/ OpenRespOpenItem
    \/ OpenRespOpenContentPart
    \/ OpenRespNextToken
    \/ OpenRespWakeTbt
    \/ OpenRespCloseContentPart
    \/ OpenRespCloseItem
    \/ OpenRespComplete
    \/ OpenRespYieldDone
    \/ OpenRespEnd
    \/ OpenRespDrop

\* OpenResponsesStreamBuilder::build
OpenRespInit ==
    /\ engine = "openresponses"
    /\ content \in StringsUpTo(MaxContentLen)
    /\ latency \in LatencyProfiles
    /\ usage \in {None, Some(OpenResponsesUsage)}
    /\ on_complete \in {None, Some("cb")}
    /\ reasoning = None
    /\ pc = "built"
    /\ tokens = <<>>
    /\ summary_tokens = <<>>
    /\ sequence_counter = 0
    /\ message_output_index = None
    /\ all_output_items = <<>>
    /\ timer = None
    /\ frames = <<>>
    /\ sleeps = <<>>
    /\ callback_calls = 0
    /\ ServerIdle

----------------------------------------------------------------------------
(* The request pipeline (src/src/cli/handlers.rs): chat_completions,
   create_openresponses_response and create_response run the same steps and
   differ in the endpoint they count and the stream they build *)

Handlers ==
    {"chat_completions", "create_openresponses_response", "create_response"}

\* the EndpointType a handler passes to record_request_start
EndpointType(h) ==
    IF h = "chat_completions" THEN "ChatCompletions" ELSE "Responses"

\* the stream a handler builds
EngineOf(h) ==
    CASE h = "chat_completions" -> "chat"
      [] h = "create_openresponses_response" -> "openresponses"
      [] h = "create_response" -> "responses"

\* ReasoningConfig.effort values: the six levels and one that is none of them
Efforts == {"none", "minimal", "low", "medium", "high", "xhigh", "HIGH"}
ReasoningEfforts ==
    {None, Some([effort |-> None])}
        \cup {Some([effort |-> Some(e)]) : e \in Efforts}

\* is_reasoning_model
is_reasoning_model(model) ==
    LET is_o_series == \/ starts_with(model, "o1")
                       \/ starts_with(model, "o3")
                       \/ starts_with(model, "o4")
                       \/ contains(model, "-o1")
                       \/ contains(model, "-o3")
        is_gpt5 == starts_with(model, "gpt-5")
    IN is_o_series \/ is_gpt5

\* the effort a request asks for, "medium" when it names none
effort_of(reasoning_config) ==
    IF is_some(reasoning_config) /\ is_some(unwrap(reasoning_config).effort)
    THEN unwrap(unwrap(reasoning_config).effort)
    ELSE "medium"

\* the multiplier of calculate_reasoning_tokens, in halves (every multiplier
\* is a multiple of 0.5)
multiplier_halves(effort) ==
    CASE effort = "none" -> 0
      [] effort = "minimal" -> 1
      [] effort = "low" -> 3
      [] effort = "medium" -> 6
      [] effort = "high" -> 12
      [] effort = "xhigh" -> 20
      [] OTHER -> 6

\* calculate_reasoning_tokens: `(output_tokens as f64 * multiplier) as usize`
\* drops the fraction of the product
calculate_reasoning_tokens(model, reasoning_config, output_tokens) ==
    IF ~is_reasoning_model(model) THEN 0
    ELSE (output_tokens * multiplier_halves(effort_of(reasoning_config)))
             \div 2

\* the width the model gives the u32 of a usage
TokenBits == 24

\* `as u32` on a usize
as_u32(n) == n % (2 ^ TokenBits)

\* count_request_tokens and its like on the request the model sends
prompt_tok(h) ==
    IF h = "chat_completions" THEN ChatUsage.prompt_tokens
    ELSE IF h = "create_response" THEN ResponsesUsageValue.input_tokens
    ELSE OpenResponsesUsage.input_tokens

\* `count_tokens_default(&content).unwrap_or(content.split_whitespace()
\* .count())`: the generated contents are single-letter words, which the
\* tokenizer counts one token each, as the fallback does
count_tokens(text) ==
    Cardinality({k \in 1..Len(text) :
                    /\ ~is_whitespace(text[k])
                    /\ k = 1 \/ is_whitespace(text[k - 1])})

\* the reasoning settings of the requests: no setting; effort none with a
\* summary asked for; effort minimal, which leaves a one-token output with
\* no reasoning token, with a summary mode; effort low with a word that is
\* no mode
RequestReasoning ==
    {None,
     Some([effort |-> Some("none"), summary |-> Some("auto")]),
     Some([effort |-> Some("minimal"), summary |-> Some("detailed")]),
     Some([effort |-> Some("low"), summary |-> Some("verbose")])}

\* the settings sent with a model: all of them with a reasoning model, and
\* with another model no setting and one that asks for a summary
RequestReasoningOf(model) ==
    IF model = "o3" THEN RequestReasoning
    ELSE {None,
          Some([effort |-> Some("minimal"), summary |-> Some("detailed")])}

\* mutant: the total of a responses usage leaves the reasoning tokens out
handler_usage_TotalWithoutReasoning(h, model, reasoning_config, text) ==
    LET input_tokens == prompt_tok(h)
        output_tokens == count_tokens(text)
        reasoning_tokens ==
            calculate_reasoning_tokens(model, reasoning_config, output_tokens)
    IN CASE h = "chat_completions" ->
              [prompt_tokens |-> as_u32(input_tokens),
               completion_tokens |-> as_u32(output_tokens),
               total_tokens |-> as_u32(input_tokens + output_tokens)]
         [] h = "create_openresponses_response" ->
              [input_tokens |-> as_u32(input_tokens),
               output_tokens |-> as_u32(output_tokens),
               total_tokens |-> as_u32(input_tokens + output_tokens),
               input_tokens_details |-> None,
               output_tokens_details |-> None]
         [] h = "create_response" ->
              [input_tokens |-> as_u32(input_tokens),
               output_tokens |-> as_u32(output_tokens),
               total_tokens |-> as_u32(input_tokens + output_tokens),
               output_tokens_details |->
                   Some([reasoning_tokens |-> as_u32(reasoning_tokens)])]

\* the usage a handler computes from its token counts
handler_usage(h, model, reasoning_config, text) ==
    LET input_tokens == prompt_tok(h)
        output_tokens == count_tokens(text)
        reasoning_tokens ==
            calculate_reasoning_tokens(model, reasoning_config, output_tokens)
    IN CASE h = "chat_completions" ->
              [prompt_tokens |-> as_u32(input_tokens),
               completion_tokens |-> as_u32(output_tokens),
               total_tokens |-> as_u32(input_tokens + output_tokens)]
         [] h = "create_openresponses_response" ->
              [input_tokens |-> as_u32(input_tokens),
               output_tokens |-> as_u32(output_tokens),
               total_tokens |-> as_u32(input_tokens + output_tokens),
               input_tokens_details |-> None,
               output_tokens_details |-> None]
         [] h = "create_response" ->
              [input_tokens |-> as_u32(input_tokens),
               output_tokens |-> as_u32(output_tokens),
               total_tokens |->
                   as_u32(input_tokens + output_tokens + reasoning_tokens),
               output_tokens_details |->
                   Some([reasoning_tokens |-> as_u32(reasoning_tokens)])]

\* the usage as the stream builder of the handler takes it
UsageOf(h, u) == IF h = "create_response" THEN u ELSE Some(u)

\* the reasoning tokens create_response computes, 0 in the other handlers
reasoning_tok(h, model, reasoning_config, text) ==
    IF h = "create_response"
    THEN calculate_reasoning_tokens(model, reasoning_config,
                                    count_tokens(text))
    ELSE 0

\* what generator.generate returns
GeneratedContents == {<<"a">>, <<"a", " ", "a">>}

\* what generate_reasoning_summary returns when a summary is requested:
\* words joined by whitespace
GeneratedSummaries == {<<"a", " ", "a">>}

\* `reasoning.as_ref().and_then(|r| r.summary.as_deref())`
summary_mode(reasoning_config) ==
    IF is_some(reasoning_config) THEN unwrap(reasoning_config).summary
    ELSE None

\* mutant: a summary whenever there are reasoning tokens
generate_reasoning_summary_Any(model, reasoning_config, reasoning_tokens, text) ==
    IF reasoning_tokens = 0 THEN None ELSE Some(text)

\* generate_reasoning_summary; `text` is what generate_reasoning_text
\* returns, words joined by whitespace
generate_reasoning_summary(model, reasoning_config, reasoning_tokens, text) ==
    IF reasoning_tokens = 0 THEN None
    ELSE IF summary_mode(reasoning_config)
               \notin {Some("auto"), Some("concise"), Some("detailed")}
    THEN None
    ELSE Some(text)

\* `if reasoning_tokens > 0 { builder = builder.reasoning(reasoning_summary) }`:
\* the builder keeps the summary as the summary_text of its
\* ReasoningStreamConfig
StreamReasoning(model, reasoning_config, reasoning_tokens) ==
    IF reasoning_tokens > 0
    THEN {Some([summary_text |->
                   generate_reasoning_summary(model, reasoning_config,
                                              reasoning_tokens, generated)]) :
             generated \in GeneratedSummaries}
    ELSE {None}

\* the models the requests name: one that reasons and one that does not
RequestModels == {"gpt-4", "o3"}

\* the configurations the server runs with: a latency profile is configured,
\* and the errors section sets no rate, or one part for each kind, or
\* rate_limit_rate = 1
NoErrors ==
    [rate_limit_rate |-> 0, server_error_rate |-> 0, timeout_rate |-> 0,
     timeout_after_ms |-> default_timeout]
ServerErrors ==
    {NoErrors,
     [rate_limit_rate |-> 1, server_error_rate |-> 1, timeout_rate |-> 1,
      timeout_after_ms |-> default_timeout],
     [rate_limit_rate |-> RateUnits, server_error_rate |-> 0,
      timeout_rate |-> 0, timeout_after_ms |-> default_timeout]}
\* the latency sections: none, a named profile, custom values, and a custom
\* time between tokens alone
CustomLatency ==
    [LatencyConfig_default EXCEPT
        !.ttft_mean_ms = Some(3), !.ttft_stddev_ms = Some(0),
        !.tbt_mean_ms = Some(2), !.tbt_stddev_ms = Some(1)]
ServerLatencies ==
    {LatencyConfig_default,
     [LatencyConfig_default EXCEPT !.profile = Some("Instant")],
     CustomLatency,
     [LatencyConfig_default EXCEPT !.tbt_mean_ms = Some(2)]}
\* the configurations of the server: each error section with the custom
\* latency values, and each latency section without error injection
ServerConfigs ==
    {[errors |-> e, latency |-> l] :
        e \in ServerErrors, l \in {CustomLatency}}
    \cup {[errors |-> e, latency |-> l] :
             e \in {NoErrors}, l \in ServerLatencies}

\* the smallest and the largest value random_range(1..60) draws
RetryAfterEnds ==
    {n \in random_range(1, 60) :
        \/ \A k \in random_range(1, 60) : n <= k
        \/ \A k \in random_range(1, 60) : n >= k}

Digits == <<"0", "1", "2", "3", "4", "5", "6", "7", "8", "9">>

RECURSIVE to_string(_)
\* u32::to_string: the decimal digits, most significant first
to_string(n) ==
    IF n < 10 THEN <<Digits[n + 1]>>
    ELSE to_string(n \div 10) \o <<Digits[(n % 10) + 1]>>

\* `match status_code { 429 => TOO_MANY_REQUESTS, .. _ => 500 }`
StatusCode(code) ==
    IF code \in {429, 500, 503, 504, 400, 401} THEN code ELSE 500

\* the error response: the JSON envelope, the status, and Retry-After if
\* the error has one
error_response(error) ==
    [status |-> StatusCode(SimulatedError_status_code(error)),
     content_type |-> "application/json",
     body |-> to_error_response(error),
     retry_after |-> IF is_some(retry_after(error))
                     THEN Some(to_string(unwrap(retry_after(error))))
                     ELSE None]

\* the response whose body is the SSE stream
stream_response(h) ==
    [status |-> 200, content_type |-> "text/event-stream",
     body |-> [stream |-> EngineOf(h)], retry_after |-> None]

\* the one-shot JSON response
json_response(h, text) ==
    [status |-> 200, content_type |-> "application/json",
     body |-> [object |-> IF h = "chat_completions" THEN "chat.completion"
                          ELSE "response",
               content |-> text],
     retry_after |-> None]

\* a request the handler has just been called with
NewRequest(h, model, stream) ==
    [handler |-> h, model |-> model, stream |-> stream, pc |-> "entered",
     request_start |-> now, error |-> None, response |-> None,
     latency |-> None, reasoning |-> None, usage |-> None,
     content |-> <<>>, wake |-> None, slept |-> 0, stream_built |-> FALSE,
     calls |-> <<[call |-> "record_request_start"]>>]

\* handler entry: `request_start = Instant::now()` and record_request_start.
\* There is one stream in the model, so one request at most asks for one.
HandlerEnter(h, model, stream) ==
    /\ Len(requests) < MaxRequests
    /\ stream => \A i \in DOMAIN requests : ~requests[i].stream
    /\ stats' = record_request_start(stats, model, stream, EndpointType(h),
                                     now)
    /\ requests' = Append(requests, NewRequest(h, model, stream))
    /\ UNCHANGED <<now, writers, history, config, injector, unit, reader>>
    /\ streamUnchanged

\* mutant: the error is returned without being recorded
InjectError_Unrecorded(i, error) ==
    /\ requests' = [requests EXCEPT
                       ![i].error = Some(error),
                       ![i].response = Some(error_response(error)),
                       ![i].pc = "responded"]
    /\ UNCHANGED <<stats, now, writers, history, config, injector, unit, reader>>
    /\ streamUnchanged

\* mutant: a streaming request that is hit gets its stream all the same
InjectError_StreamAnyway(i, error) ==
    /\ stats' = record_error(stats, SimulatedError_status_code(error))
    /\ requests' = [requests EXCEPT
                       ![i].error = Some(error),
                       ![i].response =
                           IF requests[i].stream
                           THEN Some(stream_response(requests[i].handler))
                           ELSE Some(error_response(error)),
                       ![i].calls =
                           Append(@, [call |-> "record_error",
                                      status_code |->
                                          SimulatedError_status_code(error)]),
                       ![i].pc = "responded"]
    /\ UNCHANGED <<now, writers, history, config, injector, unit, reader>>
    /\ streamUnchanged

\* the injector hit: record the error by its status code and return the
\* error envelope; nothing is awaited and nothing else is built
InjectError(i, error) ==
    /\ stats' = record_error(stats, SimulatedError_status_code(error))
    /\ requests' = [requests EXCEPT
                       ![i].error = Some(error),
                       ![i].response = Some(error_response(error)),
                       ![i].calls =
                           Append(@, [call |-> "record_error",
                                      status_code |->
                                          SimulatedError_status_code(error)]),
                       ![i].pc = "responded"]
    /\ UNCHANGED <<now, writers, history, config, injector, unit, reader>>
    /\ streamUnchanged

\* mutant: the streaming branch records the end of the request as it
\* builds the stream
BuildStream_RecordsEnd(i, text, rc, rs) ==
    LET h == requests[i].handler
        u == handler_usage(h, requests[i].model, rc, text)
    IN /\ engine' = EngineOf(h)
       /\ content' = text
       /\ latency' = handler_latency(config, requests[i].model)
       /\ usage' = UsageOf(h, u)
       /\ on_complete' = Some("record_request_end")
       /\ reasoning' = IF h = "create_response" THEN rs ELSE None
       /\ pc' = "built"
       /\ requests' = [requests EXCEPT
                          ![i].latency =
                              Some(handler_latency(config, requests[i].model)),
                          ![i].reasoning = rc,
                          ![i].usage = Some(u),
                          ![i].content = text,
                          ![i].stream_built = TRUE,
                          ![i].response = Some(stream_response(h)),
                          ![i].calls =
                              Append(@, [call |-> "record_request_end"]),
                          ![i].pc = "streaming"]
       /\ UNCHANGED <<tokens, summary_tokens, sequence_counter,
                      message_output_index, all_output_items, timer, frames,
                      sleeps, callback_calls>>
       /\ stats' = record_request_end(stats, now - requests[i].request_start,
                                      prompt_of(u), completion_of(u))
       /\ UNCHANGED <<now, writers, history, config, injector, unit, reader>>

\* the streaming branch: the builder with the closure that records the end
\* of the request, and the response whose body polls the stream
BuildStream(i, text, rc, rs) ==
    LET h == requests[i].handler
        u == handler_usage(h, requests[i].model, rc, text)
    IN /\ engine' = EngineOf(h)
       /\ content' = text
       /\ latency' = handler_latency(config, requests[i].model)
       /\ usage' = UsageOf(h, u)
       /\ on_complete' = Some("record_request_end")
       /\ reasoning' = IF h = "create_response" THEN rs ELSE None
       /\ pc' = "built"
       /\ requests' = [requests EXCEPT
                          ![i].latency =
                              Some(handler_latency(config, requests[i].model)),
                          ![i].reasoning = rc,
                          ![i].usage = Some(u),
                          ![i].content = text,
                          ![i].stream_built = TRUE,
                          ![i].response = Some(stream_response(h)),
                          ![i].pc = "streaming"]
       /\ UNCHANGED <<tokens, summary_tokens, sequence_counter,
                      message_output_index, all_output_items, timer, frames,
                      sleeps, callback_calls>>
       /\ UNCHANGED <<stats, now, writers, history, config, injector, unit,
                      reader>>

\* the one-shot branch after its delay: record_request_end, JSON response
Finish(i, text, rc, t) ==
    LET r == requests[i]
        u == handler_usage(r.handler, r.model, rc, text)
    IN /\ stats' = record_request_end(stats, t - r.request_start,
                                      prompt_of(u), completion_of(u))
       /\ now' = t
       /\ requests' = [requests EXCEPT
                          ![i].latency =
                              Some(handler_latency(config, r.model)),
                          ![i].reasoning = rc,
                          ![i].usage = Some(u),
                          ![i].content = text,
                          ![i].wake = None,
                          ![i].response = Some(json_response(r.handler, text)),
                          ![i].calls =
                              Append(@, [call |-> "record_request_end"]),
                          ![i].pc = "responded"]
       /\ UNCHANGED <<writers, history, config, injector, unit, reader>>
       /\ streamUnchanged

\* the one-shot branch: `tokio::time::sleep(delay).await`
SleepDelay(i, text, rc, delay) ==
    /\ requests' = [requests EXCEPT
                       ![i].latency =
                           Some(handler_latency(config, requests[i].model)),
                       ![i].reasoning = rc,
                       ![i].usage =
                           Some(handler_usage(requests[i].handler,
                                              requests[i].model, rc, text)),
                       ![i].content = text,
                       ![i].wake = Some(now + delay),
                       ![i].slept = @ + delay,
                       ![i].pc = "sleeping"]
    /\ UNCHANGED <<stats, now, writers, history, config, injector, unit, reader>>
    /\ streamUnchanged

\* the handler from the injection check to its first await or its return
HandlerRespond(i) ==
    /\ requests[i].pc = "entered"
    /\ \E injected \in
          {maybe_inject(error_config(config), roll, retry_after_seconds,
                        coin) :
              roll \in random_f64, retry_after_seconds \in RetryAfterEnds,
              coin \in random_bool} :
          IF is_some(injected)
          THEN InjectError(i, unwrap(injected))
          ELSE \E text \in GeneratedContents,
                  rc \in IF requests[i].handler = "create_response"
                         THEN RequestReasoningOf(requests[i].model)
                         ELSE {None} :
                  IF requests[i].stream
                  THEN \E rs \in StreamReasoning(
                                     requests[i].model, rc,
                                     reasoning_tok(requests[i].handler,
                                                   requests[i].model,
                                                   rc, text)) :
                          BuildStream(i, text, rc, rs)
                  ELSE \E delay \in
                              sample_ttft(handler_latency(
                                  config, requests[i].model)) :
                          IF delay # 0
                          THEN SleepDelay(i, text, rc, delay)
                          ELSE Finish(i, text, rc, now)

\* the one-shot delay is over: the timer fires at its deadline or later
HandlerWake(i) ==
    /\ requests[i].pc = "sleeping"
    /\ Finish(i, requests[i].content, requests[i].reasoning,
              IF now < unwrap(requests[i].wake)
              THEN unwrap(requests[i].wake) ELSE now)

PipelineNext ==
    \/ \E h \in Handlers, model \in RequestModels, stream \in BOOLEAN :
          HandlerEnter(h, model, stream)
    \/ \E i \in DOMAIN requests : HandlerRespond(i)
    \/ \E i \in DOMAIN requests : HandlerWake(i)
    \/ ChatNext
    \/ RespNext
    \/ OpenRespNext

\* the server after start-up: no request yet
PipelineInit ==
    /\ NoStream
    /\ stats = Stats_new
    /\ now = Epoch
    /\ writers = <<>>
    /\ requests = <<>>
    /\ history = NoHistory
    /\ config \in ServerConfigs
    /\ injector = NoInjector
    /\ unit = NoUnit
    /\ reader = NoReader

----------------------------------------------------------------------------
(* An injector under test, as the unit tests of errors.rs call it *)

\* the call of maybe_inject: its result depends on nothing but the
\* configuration and what the generator draws, so one call shows every result
InjectorCall ==
    /\ injector # NoInjector
    /\ injector.returned = None
    /\ \E roll \in random_f64 :
          \E returned \in
                {maybe_inject(injector.config, roll, retry_after_seconds,
                              coin) :
                    retry_after_seconds \in RetryAfterEnds,
                    coin \in random_bool} :
             injector' = [injector EXCEPT !.roll = Some(roll),
                                          !.returned = Some(returned)]
    /\ UNCHANGED <<stats, now, writers, requests, history, config, unit, reader>>
    /\ streamUnchanged

InjectorNext == InjectorCall

InjectorInit ==
    /\ NoStream
    /\ stats = Stats_new
    /\ now = Epoch
    /\ writers = <<>>
    /\ requests = <<>>
    /\ history = NoHistory
    /\ config = Config_default
    /\ injector \in {ErrorInjector_new(cfg) : cfg \in ErrorConfigs}
    /\ unit = NoUnit
    /\ reader = NoReader

----------------------------------------------------------------------------
(* Specifications *)

Init == ChatInit \/ RespInit

Next == ChatNext \/ RespNext

\* either engine
Spec == Init /\ [][Next]_vars

\* the OpenResponses engine alone
SpecOpenResponses == OpenRespInit /\ [][OpenRespNext]_vars

\* any of the three engines
SpecStreams ==
    (ChatInit \/ RespInit \/ OpenRespInit)
    /\ [][ChatNext \/ RespNext \/ OpenRespNext]_vars

\* one thread calling Stats
SpecStatsSeq == SeqInit /\ [][SeqNext]_vars

\* one thread starting requests while the clock runs past the window
WindowNext == SeqRecordRequestStart \/ WindowTick
SpecWindow == SeqInit /\ [][WindowNext]_vars

\* several threads calling Stats
SpecStats == WritersInit /\ [][WritersNext]_vars

\* concurrent writers that end a request with record_request_end or with
\* record_error
WritersMixedNext ==
    \/ WritersNext
    \/ \E w \in Writers : WriterError(w)
SpecStatsMixed == WritersInit /\ [][WritersMixedNext]_vars

\* several threads calling Stats, each of which the scheduler runs again
\* whenever it can take a step
WritersFairness ==
    \A w \in Writers :
        /\ WF_vars(WriterStart(w))
        /\ WF_vars(WriterEnd(w))
        /\ WF_vars(WriterStep(w))
SpecStatsFair == WritersInit /\ [][WritersNext]_vars /\ WritersFairness

\* the statuses the requests of writer i fail with: between them the
\* writers cover every kind and a status of no kind
FailStatuses(i) ==
    CASE i % 3 = 0 -> {429, 504}
      [] i % 3 = 1 -> {503, 400}
      [] i % 3 = 2 -> {500, 401}

\* concurrent writers every request of which fails
ErrorsNext ==
    \/ \E w \in Writers : WriterStart(w)
    \/ \E w \in Writers : WriterStep(w)
    \/ \E w \in Writers :
          \E status_code \in FailStatuses(w) : WriterFail(w, status_code)
SpecStatsErrors == WritersInit /\ [][ErrorsNext]_vars

\* several threads calling Stats and one taking a snapshot meanwhile
SnapshotNext == WritersNext \/ ReaderStart \/ ReaderStep
SpecSnapshot == WritersInit /\ [][SnapshotNext]_vars

\* an error injector called on its own
SpecInjector == InjectorInit /\ [][InjectorNext]_vars

\* the server: requests through the handlers, and the stream of one of them
SpecPipeline == PipelineInit /\ [][PipelineNext]_vars

\* the chat engine alone
SpecChat == ChatInit /\ [][ChatNext]_vars

\* the responses engine alone
SpecResponses == RespInit /\ [][RespNext]_vars

----------------------------------------------------------------------------
(* Reading the frames back, as a client would *)

IsChunkFrame(f) == "json" \in DOMAIN f /\ Len(f.json.choices) = 1
IsDoneFrame(f) == "literal" \in DOMAIN f /\ f.literal = "[DONE]"

IsRoleFrame(f) ==
    /\ IsChunkFrame(f)
    /\ f.json.choices[1].delta.role = <<"assistant">>
    /\ f.json.choices[1].delta.content = <<>>
    /\ f.json.choices[1].finish_reason = <<>>

IsContentFrame(f) ==
    /\ IsChunkFrame(f)
    /\ f.json.choices[1].delta.role = <<>>
    /\ Len(f.json.choices[1].delta.content) = 1
    /\ f.json.choices[1].finish_reason = <<>>

IsFinishFrame(f) ==
    /\ IsChunkFrame(f)
    /\ f.json.choices[1].delta.role = <<>>
    /\ f.json.choices[1].delta.content = <<>>
    /\ f.json.choices[1].finish_reason = <<"stop">>

\* the frame the chat protocol puts at position i of a stream of n tokens
ChatFrameAt(f, i, n) ==
    IF i = 1 THEN IsRoleFrame(f)
    ELSE IF i <= n + 1 THEN IsContentFrame(f)
    ELSE IF i = n + 2 THEN IsFinishFrame(f)
    ELSE i = n + 3 /\ IsDoneFrame(f)

EventIs(f, type) == "event" \in DOMAIN f /\ f.event = type

ItemFrameOf(f, itemType) ==
    /\ \/ EventIs(f, "response.output_item.added")
       \/ EventIs(f, "response.output_item.done")
    /\ f.data.item.type = itemType

IsSummaryFrame(f) ==
    \/ EventIs(f, "response.reasoning_summary_part.added")
    \/ EventIs(f, "response.reasoning_summary_text.delta")
    \/ EventIs(f, "response.reasoning_summary_text.done")
    \/ EventIs(f, "response.reasoning_summary_part.done")

IsReasoningFrame(f) == IsSummaryFrame(f) \/ ItemFrameOf(f, "reasoning")

IsMessageFrame(f) ==
    \/ ItemFrameOf(f, "message")
    \/ EventIs(f, "response.content_part.added")
    \/ EventIs(f, "response.output_text.delta")
    \/ EventIs(f, "response.output_text.done")
    \/ EventIs(f, "response.content_part.done")

IsDeltaFrame(f) ==
    \/ EventIs(f, "response.reasoning_summary_text.delta")
    \/ EventIs(f, "response.output_text.delta")

Last(seq) == seq[Len(seq)]

----------------------------------------------------------------------------
(* Chat stream: frame order *)

\* C1: a fully consumed chat stream has emitted exactly: one role frame, one
\* content frame per streaming token of the content (carrying that token),
\* one finish frame with finish_reason "stop", and `data: [DONE]` as the last
\* frame, in this order; before the end the frames emitted so far are a prefix
\* of that sequence.  Empty content gives zero content frames.
C1_ChatFrameOrder ==
    engine = "chat" =>
        LET n == Len(tokenize(content)) IN
        /\ Len(frames) <= n + 3
        /\ \A i \in 1..Len(frames) : ChatFrameAt(frames[i], i, n)
        /\ \A i \in 2..Len(frames) :
              i <= n + 1 =>
                 frames[i].json.choices[1].delta.content =
                    <<tokenize(content)[i - 1]>>
        /\ pc = "ended" => Len(frames) = n + 3

\* a drained chat stream of "a a": role, "a", " ", "a", finish, [DONE]
C1_Witness ==
    /\ engine = "chat" /\ pc = "ended"
    /\ content = <<"a", " ", "a">>
    /\ Len(frames) = 6
    /\ IsDoneFrame(frames[6])

----------------------------------------------------------------------------
(* Responses stream: lifecycle frames *)

\* C2: in a responses stream response.created is the first frame,
\* response.completed is the last frame of a drained stream, no frame of any
\* kind follows response.completed, and no `[DONE]` marker is ever emitted.
C2_CreatedFirstCompletedLast ==
    engine = "responses" =>
        /\ frames # <<>> => EventIs(frames[1], "response.created")
        /\ \A i \in 1..Len(frames) :
              /\ EventIs(frames[i], "response.completed") => i = Len(frames)
              /\ EventIs(frames[i], "response.created") => i = 1
              /\ ~IsDoneFrame(frames[i])
        /\ pc = "ended" =>
              frames # <<>> /\ EventIs(Last(frames), "response.completed")

\* a drained responses stream with a reasoning summary and content
C2_Witness ==
    /\ engine = "responses" /\ pc = "ended"
    /\ is_some(reasoning) /\ is_some(summary_text)
    /\ content # <<>>
    /\ EventIs(Last(frames), "response.completed")

----------------------------------------------------------------------------
(* Responses stream: sequence numbers *)

\* the delta frames (summary and text deltas together), in emission order
DeltaFrames == SelectSeq(frames, IsDeltaFrame)

\* C3: the sequence_number values of the delta frames of a responses stream
\* (reasoning_summary_text.delta and output_text.delta together), in emission
\* order, are 0, 1, ..., K-1: one shared counter, no gap, no duplicate, no
\* reset between the reasoning phase and the message phase.
C3_SequenceNumbersContiguous ==
    engine = "responses" =>
        \A i \in 1..Len(DeltaFrames) :
            DeltaFrames[i].data.sequence_number = i - 1

\* a drained stream whose summary and content both produced deltas: the
\* text deltas continue the numbering of the summary delta
C3_Witness ==
    /\ engine = "responses" /\ pc = "ended"
    /\ Len(DeltaFrames) = 3
    /\ EventIs(DeltaFrames[1], "response.reasoning_summary_text.delta")
    /\ DeltaFrames[1].data.sequence_number = 0
    /\ EventIs(DeltaFrames[2], "response.output_text.delta")
    /\ DeltaFrames[2].data.sequence_number = 1
    /\ DeltaFrames[3].data.sequence_number = 2

----------------------------------------------------------------------------
(* Responses stream: the reasoning prelude precedes the message *)

\* positions of the message's output_item.added
MessageAddedAt ==
    {i \in 1..Len(frames) :
        /\ EventIs(frames[i], "response.output_item.added")
        /\ frames[i].data.item.type = "message"}

MessageFramesAt == {i \in 1..Len(frames) : IsMessageFrame(frames[i])}
ReasoningFramesAt == {i \in 1..Len(frames) : IsReasoningFrame(frames[i])}

\* C4: with reasoning configured, every reasoning frame (the reasoning
\* output_item.added, the reasoning_summary_* frames, the reasoning
\* output_item.done) is emitted before the message's output_item.added, the
\* reasoning item is closed by then, and no reasoning frame follows a message
\* frame.
C4_ReasoningBeforeMessage ==
    (engine = "responses" /\ is_some(reasoning)) =>
        /\ \A i \in MessageFramesAt : \A j \in ReasoningFramesAt : j < i
        /\ \A m \in MessageAddedAt :
              /\ \E a \in 1..(m - 1) :
                    /\ EventIs(frames[a], "response.output_item.added")
                    /\ frames[a].data.item.type = "reasoning"
              /\ \E d \in 1..(m - 1) :
                    /\ EventIs(frames[d], "response.output_item.done")
                    /\ frames[d].data.item.type = "reasoning"
                    /\ frames[d].data.item.status = "completed"
        /\ pc = "ended" => MessageAddedAt # {}

\* a drained stream with a streamed summary: summary frames and message
\* frames are both present
C4_Witness ==
    /\ engine = "responses" /\ pc = "ended"
    /\ is_some(reasoning)
    /\ \E i \in 1..Len(frames) :
          EventIs(frames[i], "response.reasoning_summary_text.delta")
    /\ \E i \in 1..Len(frames) :
          EventIs(frames[i], "response.output_text.delta")

----------------------------------------------------------------------------
(* Responses stream: the message phase *)

\* the frame the protocol puts at position k of the message phase of a
\* content of n tokens `toks`
MessageFrameAt(f, k, toks) ==
    LET n == Len(toks) IN
    IF k = 1 THEN /\ EventIs(f, "response.output_item.added")
                  /\ f.data.item.type = "message"
                  /\ f.data.item.status = "in_progress"
                  /\ f.data.item.content = <<>>
    ELSE IF k = 2 THEN /\ EventIs(f, "response.content_part.added")
                       /\ f.data.part.text = <<>>
    ELSE IF k <= n + 2 THEN /\ EventIs(f, "response.output_text.delta")
                            /\ f.data.delta = toks[k - 2]
    ELSE IF k = n + 3 THEN EventIs(f, "response.output_text.done")
    ELSE IF k = n + 4 THEN EventIs(f, "response.content_part.done")
    ELSE IF k = n + 5 THEN /\ EventIs(f, "response.output_item.done")
                           /\ f.data.item.type = "message"
                           /\ f.data.item.status = "completed"
    ELSE k = n + 6 /\ EventIs(f, "response.completed")

\* the message phase emitted so far follows the protocol, and is complete
\* once the stream is drained
MessagePhaseInOrder ==
    LET toks == responses_tokenize(content) IN
    /\ \A m \in MessageAddedAt :
          /\ m = CHOOSE x \in MessageAddedAt : \A y \in MessageAddedAt : x <= y
          /\ \A i \in m..Len(frames) :
                MessageFrameAt(frames[i], i - m + 1, toks)
          /\ pc = "ended" => Len(frames) = m + Len(toks) + 5
    /\ pc = "ended" => MessageAddedAt # {}

AddedStem(f) ==
    IF EventIs(f, "response.output_item.added") THEN "output_item"
    ELSE IF EventIs(f, "response.content_part.added") THEN "content_part"
    ELSE IF EventIs(f, "response.reasoning_summary_part.added")
         THEN "reasoning_summary_part"
    ELSE ""

DoneStem(f) ==
    IF EventIs(f, "response.output_item.done") THEN "output_item"
    ELSE IF EventIs(f, "response.content_part.done") THEN "content_part"
    ELSE IF EventIs(f, "response.reasoning_summary_part.done")
         THEN "reasoning_summary_part"
    ELSE ""

RECURSIVE Nesting(_, _)
\* runs the added/done frames of fs against a stack of open scopes
Nesting(fs, stack) ==
    IF fs = <<>> THEN [ok |-> TRUE, open |-> stack]
    ELSE LET f == Head(fs) IN
         IF AddedStem(f) # ""
         THEN Nesting(Tail(fs),
                      Append(stack, <<AddedStem(f), f.data.output_index>>))
         ELSE IF DoneStem(f) # ""
         THEN IF /\ stack # <<>>
                 /\ Last(stack) = <<DoneStem(f), f.data.output_index>>
              THEN Nesting(Tail(fs), SubSeq(stack, 1, Len(stack) - 1))
              ELSE [ok |-> FALSE, open |-> stack]
         ELSE Nesting(Tail(fs), stack)

\* C5: the message phase of a responses stream is, in this order:
\* output_item.added (in_progress, empty content), content_part.added (empty
\* text), one output_text.delta per content token, output_text.done,
\* content_part.done, output_item.done (completed), response.completed; and
\* over the whole stream every `added` frame has exactly one matching `done`
\* frame, the pairs properly nested.
C5_MessagePhaseOrder ==
    engine = "responses" =>
        /\ MessagePhaseInOrder
        /\ Nesting(frames, <<>>).ok
        /\ pc = "ended" => Nesting(frames, <<>>).open = <<>>

\* a drained stream of "a a" without reasoning: 2 lifecycle frames, then the
\* 9 frames of the message phase
C5_Witness ==
    /\ engine = "responses" /\ pc = "ended"
    /\ content = <<"a", " ", "a">>
    /\ reasoning = None
    /\ Len(frames) = 11
    /\ EventIs(frames[9], "response.content_part.done")

----------------------------------------------------------------------------
(* Responses stream: output_index *)

ItemAddedFrames ==
    SelectSeq(frames, LAMBDA f : EventIs(f, "response.output_item.added"))

\* C6: every message-phase frame carries output_index 1 when reasoning is
\* configured and 0 otherwise, every reasoning frame carries output_index 0,
\* and a drained stream has exactly one output_item.added per output item:
\* reasoning at 0 then message at 1 with reasoning, a single message at 0
\* without.
C6_OutputIndex ==
    engine = "responses" =>
        /\ \A i \in 1..Len(frames) :
              /\ IsMessageFrame(frames[i]) =>
                    frames[i].data.output_index =
                        IF is_some(reasoning) THEN 1 ELSE 0
              /\ IsReasoningFrame(frames[i]) =>
                    frames[i].data.output_index = 0 /\ is_some(reasoning)
        /\ Len(ItemAddedFrames) <= (IF is_some(reasoning) THEN 2 ELSE 1)
        /\ pc = "ended" =>
              IF is_some(reasoning)
              THEN /\ Len(ItemAddedFrames) = 2
                   /\ ItemAddedFrames[1].data.item.type = "reasoning"
                   /\ ItemAddedFrames[1].data.output_index = 0
                   /\ ItemAddedFrames[2].data.item.type = "message"
                   /\ ItemAddedFrames[2].data.output_index = 1
              ELSE /\ Len(ItemAddedFrames) = 1
                   /\ ItemAddedFrames[1].data.item.type = "message"
                   /\ ItemAddedFrames[1].data.output_index = 0

\* a drained stream with reasoning whose text deltas are at output_index 1
C6_Witness ==
    /\ engine = "responses" /\ pc = "ended"
    /\ is_some(reasoning)
    /\ Len(ItemAddedFrames) = 2
    /\ \E i \in 1..Len(frames) :
          /\ EventIs(frames[i], "response.output_text.delta")
          /\ frames[i].data.output_index = 1

----------------------------------------------------------------------------
(* Responses stream: reasoning without a summary *)

\* C7: with reasoning configured and no summary text the stream emits, right
\* after response.in_progress, exactly the pair output_item.added /
\* output_item.done of a reasoning item at output_index 0 with no summary, no
\* reasoning_summary_* frame at all, uses no sequence number in the reasoning
\* phase (the first text delta has number 0), and then the full message phase
\* at output_index 1.
C7_ReasoningWithoutSummary ==
    (engine = "responses" /\ is_some(reasoning) /\ ~is_some(summary_text)) =>
        /\ \A i \in 1..Len(frames) : ~IsSummaryFrame(frames[i])
        /\ \A i \in 1..Len(frames) :
              IsReasoningFrame(frames[i]) =>
                 /\ i \in {3, 4}
                 /\ frames[i].data.output_index = 0
                 /\ frames[i].data.item.summary = <<>>
        /\ \A i \in 1..Len(frames) :
              EventIs(frames[i], "response.output_text.delta") =>
                 frames[i].data.sequence_number = i - 7
        /\ Len(frames) >= 5 =>
              /\ EventIs(frames[3], "response.output_item.added")
              /\ frames[3].data.item.type = "reasoning"
              /\ frames[3].data.item.status = "in_progress"
              /\ EventIs(frames[4], "response.output_item.done")
              /\ frames[4].data.item.type = "reasoning"
              /\ frames[4].data.item.status = "completed"
              /\ MessageAddedAt = {5}
              /\ \A i \in 5..Len(frames) :
                    /\ MessageFrameAt(frames[i], i - 4, responses_tokenize(content))
                    /\ ~EventIs(frames[i], "response.completed") =>
                          frames[i].data.output_index = 1
        /\ pc = "ended" => Len(frames) = Len(responses_tokenize(content)) + 10

\* a drained stream with reasoning but no summary text, and content deltas
C7_Witness ==
    /\ engine = "responses" /\ pc = "ended"
    /\ is_some(reasoning) /\ ~is_some(summary_text)
    /\ Len(frames) = 12
    /\ EventIs(frames[7], "response.output_text.delta")
    /\ frames[7].data.sequence_number = 0

----------------------------------------------------------------------------
(* Streaming tokenizer: the deltas spell the content *)

\* the delta strings of the frames emitted so far, in emission order
ChatDeltas ==
    LET fs == SelectSeq(frames, IsContentFrame) IN
    [i \in 1..Len(fs) |-> fs[i].json.choices[1].delta.content[1]]

TextDeltas ==
    LET fs == SelectSeq(frames,
                        LAMBDA f : EventIs(f, "response.output_text.delta")) IN
    [i \in 1..Len(fs) |-> fs[i].data.delta]

SummaryDeltas ==
    LET fs == SelectSeq(frames,
                 LAMBDA f : EventIs(f, "response.reasoning_summary_text.delta")) IN
    [i \in 1..Len(fs) |-> fs[i].data.delta]

IsWord(tok) == tok # <<>> /\ \A i \in 1..Len(tok) : ~is_whitespace(tok[i])
IsSpace(tok) == Len(tok) = 1 /\ is_whitespace(tok[1])

\* every token is one whitespace character or a run of non-whitespace, and
\* the runs are maximal: no two word tokens are adjacent
TokenShaped(toks) ==
    /\ \A i \in 1..Len(toks) : IsWord(toks[i]) \/ IsSpace(toks[i])
    /\ \A i \in 1..(Len(toks) - 1) : ~(IsWord(toks[i]) /\ IsWord(toks[i + 1]))

IsPrefix(p, q) == Len(p) <= Len(q) /\ SubSeq(q, 1, Len(p)) = p

\* C8: the streaming tokenizer splits a string into maximal runs of
\* non-whitespace and single whitespace characters whose concatenation is the
\* string itself; so the delta strings of a chat or responses stream spell a
\* prefix of the content while it runs and the whole content, byte for byte,
\* once it is drained (as do the summary deltas for the summary text).
C8_DeltasSpellContent ==
    /\ engine = "chat" =>
          /\ TokenShaped(ChatDeltas)
          /\ IsPrefix(Concat(ChatDeltas), content)
          /\ pc # "built" => Concat(ChatDeltas) \o Concat(tokens) = content
          /\ pc = "ended" => Concat(ChatDeltas) = content
    /\ engine = "responses" =>
          /\ TokenShaped(TextDeltas)
          /\ IsPrefix(Concat(TextDeltas), content)
          /\ pc # "built" => Concat(TextDeltas) \o Concat(tokens) = content
          /\ pc = "ended" => Concat(TextDeltas) = content
          /\ (is_some(reasoning) /\ is_some(summary_text)) =>
                /\ TokenShaped(SummaryDeltas)
                /\ IsPrefix(Concat(SummaryDeltas), unwrap(summary_text))
                /\ pc = "ended" => Concat(SummaryDeltas) = unwrap(summary_text)

\* a drained stream of " aa": a whitespace token, then a two-character word
C8_Witness ==
    /\ engine = "chat" /\ pc = "ended"
    /\ content = <<" ", "a", "a">>
    /\ ChatDeltas = << <<" ">>, <<"a", "a">> >>

----------------------------------------------------------------------------
(* Completion callbacks *)

\* C9: the on-completion callback of a responses stream runs only once
\* response.completed has been yielded (never before or between frames), at
\* most once, and exactly once when a stream built with a callback is drained.
C9_ResponsesCallbackOnce ==
    engine = "responses" =>
        /\ callback_calls <= 1
        /\ callback_calls > 0 =>
              /\ is_some(on_complete)
              /\ pc = "ended"
              /\ frames # <<>>
              /\ EventIs(Last(frames), "response.completed")
        /\ (pc = "ended" /\ is_some(on_complete)) => callback_calls = 1

\* a drained responses stream whose callback has run
C9_Witness ==
    /\ engine = "responses" /\ pc = "ended"
    /\ is_some(on_complete)
    /\ callback_calls = 1
    /\ content # <<>>

\* C10: the on-completion callback of a chat stream runs only once the
\* `[DONE]` frame has been yielded, at most once, and exactly once when a
\* stream built with TokenStreamBuilder::on_complete is drained.
C10_ChatCallbackOnce ==
    engine = "chat" =>
        /\ callback_calls <= 1
        /\ callback_calls > 0 =>
              /\ is_some(on_complete)
              /\ pc = "ended"
              /\ frames # <<>>
              /\ IsDoneFrame(Last(frames))
        /\ (pc = "ended" /\ is_some(on_complete)) => callback_calls = 1

\* a drained chat stream of "Hello world" shape whose callback has run
C10_Witness ==
    /\ engine = "chat" /\ pc = "ended"
    /\ is_some(on_complete)
    /\ callback_calls = 1
    /\ content = <<"a", " ", "a">>

----------------------------------------------------------------------------
(* Cancellation *)

\* C11: once the consumer has dropped a stream, at a frame boundary or while
\* the generator sleeps on a TTFT or TBT timer, the stream yields no further
\* frame and its on-completion callback is never called: it has not run
\* when the stream is dropped and does not run afterwards.
C11_DropStopsStream ==
    /\ [](pc = "dropped" => callback_calls = 0 /\ timer = None)
    /\ [][pc = "dropped" =>
            /\ pc' = "dropped"
            /\ frames' = frames
            /\ callback_calls' = callback_calls]_vars

\* a stream with a callback, dropped while it slept on a TBT timer after it
\* had yielded frames
C11_Witness ==
    /\ engine \in {"responses", "openresponses"}
    /\ pc = "dropped"
    /\ is_some(on_complete)
    /\ sleeps # <<>>
    /\ Last(sleeps) = <<"tbt", Len(frames)>>
    /\ Len(frames) > 0
    /\ tokens # <<>>
    /\ callback_calls = 0

----------------------------------------------------------------------------
(* Stats *)

\* C12: whatever the interleaving of the writers' atomic operations, no
\* update is lost: whenever every writer is between two calls,
\* total_requests is the number of record_request_start calls made and
\* prompt_tokens and completion_tokens are the sums of the values passed to
\* record_request_end; once every writer has finished its loop,
\* total_requests is writers x iterations.
C12_NoLostUpdate ==
    /\ Quiescent =>
          /\ stats.total_requests = history.starts
          /\ stats.prompt_tokens = history.prompt
          /\ stats.completion_tokens = history.completion
    /\ AllFinished => stats.total_requests = NumWriters * Iterations

\* every writer has finished its loop of start and end calls
C12_Witness ==
    /\ AllFinished
    /\ NumWriters > 1
    /\ history.starts = NumWriters * Iterations
    /\ stats.total_requests = NumWriters * Iterations
    /\ stats.prompt_tokens = history.prompt
    /\ history.prompt > 0

----------------------------------------------------------------------------
(* Error injector: one draw, cumulative thresholds *)

\* the kinds in the order maybe_inject checks them
KindOrder ==
    <<"rate_limit", "server_error", "timeout", "invalid_request",
      "auth_error">>

\* the configured rate of the k-th kind
RateOf(cfg, k) ==
    CASE k = 1 -> cfg.rate_limit_rate
      [] k = 2 -> cfg.server_error_rate
      [] k = 3 -> cfg.timeout_rate
      [] k = 4 -> cfg.invalid_request_rate
      [] k = 5 -> cfg.auth_error_rate

RECURSIVE CumulativeRate(_, _)
\* the rates of the first k kinds together
CumulativeRate(cfg, k) ==
    IF k = 0 THEN 0 ELSE CumulativeRate(cfg, k - 1) + RateOf(cfg, k)

\* the kind a result of maybe_inject belongs to
KindOf(result) ==
    IF result = None THEN "none"
    ELSE CASE unwrap(result).kind = "RateLimit" -> "rate_limit"
           [] unwrap(result).kind \in {"ServerError", "ServiceUnavailable"} ->
                "server_error"
           [] unwrap(result).kind = "Timeout" -> "timeout"
           [] unwrap(result).kind = "InvalidRequest" -> "invalid_request"
           [] unwrap(result).kind = "AuthenticationError" -> "auth_error"

\* the first kind whose cumulative threshold exceeds the draw
FirstKind(cfg, roll) ==
    LET over == {k \in 1..5 : CumulativeRate(cfg, k) > roll}
    IN IF over = {} THEN "none"
       ELSE KindOrder[CHOOSE k \in over : \A j \in over : k <= j]

\* the kinds maybe_inject can return on the draw `roll`
KindsAt(cfg, roll) ==
    {KindOf(maybe_inject(cfg, roll, n, coin)) :
        n \in random_range(1, 60), coin \in random_bool}

\* C14: maybe_inject returns the first kind, in the order rate_limit,
\* server_error (as 500 or 503), timeout, invalid_request, auth_error, whose
\* cumulative threshold exceeds the single draw, and none otherwise; a draw
\* selects one kind only, so when the rates sum to at most 1 the draws
\* selecting each kind measure its rate; all-zero rates never inject and
\* rate_limit_rate = 1 always yields rate_limit.
C14_SingleDrawCumulative ==
    injector # NoInjector =>
        LET cfg == injector.config
        IN /\ injector.returned # None =>
                 KindOf(unwrap(injector.returned))
                     = FirstKind(cfg, unwrap(injector.roll))
           /\ injector.returned = None =>
                 /\ \A roll \in random_f64 :
                       KindsAt(cfg, roll) = {FirstKind(cfg, roll)}
                 /\ CumulativeRate(cfg, 5) <= RateUnits =>
                       \A k \in 1..5 :
                          Cardinality({roll \in random_f64 :
                                          KindOrder[k] \in KindsAt(cfg, roll)})
                              = RateOf(cfg, k)
                 /\ CumulativeRate(cfg, 5) = 0 =>
                       \A roll \in random_f64 : KindsAt(cfg, roll) = {"none"}
                 /\ cfg.rate_limit_rate = RateUnits =>
                       \A roll \in random_f64 :
                          KindsAt(cfg, roll) = {"rate_limit"}

\* every kind has a positive rate, the rates sum to 1, and the draw fell
\* past the rate-limit band into the server-error band, resolved to 503
C14_Witness ==
    /\ injector # NoInjector
    /\ \A k \in 1..5 : RateOf(injector.config, k) > 0
    /\ CumulativeRate(injector.config, 5) = RateUnits
    /\ injector.returned = Some(Some(ServiceUnavailable))
    /\ unwrap(injector.roll) >= injector.config.rate_limit_rate

----------------------------------------------------------------------------
(* Error injector: status codes and Retry-After *)

\* C15: each injected kind has its fixed status (429, 500, 503, 504, 400,
\* 401); a Retry-After value is present exactly for rate_limit, within
\* [1, 59], and for service_unavailable, where it is 60.
C15_StatusAndRetryAfter ==
    (injector # NoInjector /\ injector.returned # None
        /\ unwrap(injector.returned) # None) =>
        LET error == unwrap(unwrap(injector.returned))
            status == SimulatedError_status_code(error)
            after == retry_after(error)
        IN /\ error.kind = "RateLimit" =>
                 /\ status = 429
                 /\ is_some(after)
                 /\ unwrap(after) \in Nat
                 /\ 1 <= unwrap(after) /\ unwrap(after) <= 59
           /\ error.kind = "ServerError" => status = 500 /\ after = None
           /\ error.kind = "ServiceUnavailable" =>
                 status = 503 /\ after = Some(60)
           /\ error.kind = "Timeout" => status = 504 /\ after = None
           /\ error.kind = "InvalidRequest" => status = 400 /\ after = None
           /\ error.kind = "AuthenticationError" =>
                 status = 401 /\ after = None
           /\ error.kind \in {"RateLimit", "ServerError",
                              "ServiceUnavailable", "Timeout",
                              "InvalidRequest", "AuthenticationError"}

\* a rate-limit error with the largest Retry-After the generator can draw
C15_Witness ==
    /\ injector # NoInjector
    /\ injector.returned = Some(Some(RateLimit(59)))
    /\ retry_after(RateLimit(59)) = Some(59)
    /\ SimulatedError_status_code(RateLimit(59)) = 429

----------------------------------------------------------------------------
(* Request pipeline: an injected error *)

\* the calls on Stats a request hit by `error` makes
ErrorCalls(error) ==
    <<[call |-> "record_request_start"],
      [call |-> "record_error",
       status_code |-> SimulatedError_status_code(error)]>>

\* C13: a request the injector hits makes record_request_start once, then
\* record_error once with the status code of the injected error, and never
\* record_request_end; after a single injected rate-limit request the stats
\* show total_errors = 1, rate_limit_errors = 1 and active_requests = 0.
C13_InjectedErrorAccounting ==
    /\ \A i \in DOMAIN requests :
          is_some(requests[i].error) =>
              requests[i].calls = ErrorCalls(unwrap(requests[i].error))
    /\ (/\ Len(requests) = 1
        /\ is_some(requests[1].error)
        /\ unwrap(requests[1].error).kind = "RateLimit") =>
           /\ stats.total_errors = 1
           /\ stats.rate_limit_errors = 1
           /\ stats.active_requests = 0

\* one request, hit by a rate-limit error, has been answered
C13_Witness ==
    /\ Len(requests) = 1
    /\ requests[1].pc = "responded"
    /\ is_some(requests[1].error)
    /\ unwrap(requests[1].error).kind = "RateLimit"
    /\ Len(requests[1].calls) = 2
    /\ requests[1].calls[2].status_code = 429
    /\ stats.total_requests = 1
    /\ stats.total_errors = 1
    /\ stats.rate_limit_errors = 1
    /\ stats.active_requests = 0
    /\ stats.completed_requests = 0

----------------------------------------------------------------------------
(* Request pipeline: the timeout kind *)

\* C16: when the injector selects the timeout kind the server waits
\* timeout_after_ms before it returns the 504 envelope: a request answered
\* with 504 has slept that long in its handler.
C16_TimeoutDwell ==
    \A i \in DOMAIN requests :
        (/\ is_some(requests[i].error)
         /\ unwrap(requests[i].error).kind = "Timeout"
         /\ is_some(requests[i].response)) =>
            /\ unwrap(requests[i].response).status = 504
            /\ requests[i].slept >= unwrap(requests[i].error).after
            /\ now - requests[i].request_start
                   >= from_millis(config.errors.timeout_after_ms)

----------------------------------------------------------------------------
(* Request pipeline: injection precedes the stream *)

\* C17: the injection decision is taken before any stream is constructed: a
\* request with stream = true that is hit gets the error status and one JSON
\* error envelope, and no SSE frame is ever emitted for it.
C17_InjectionBeforeStream ==
    \A i \in DOMAIN requests :
        LET r == requests[i]
        IN /\ (r.stream /\ r.pc = "entered") =>
                 /\ ~r.stream_built
                 /\ engine = "none"
                 /\ frames = <<>>
           /\ (r.stream /\ is_some(r.error)) =>
                 /\ is_some(r.response)
                 /\ unwrap(r.response).status
                        = SimulatedError_status_code(unwrap(r.error))
                 /\ unwrap(r.response).content_type = "application/json"
                 /\ unwrap(r.response).body
                        = to_error_response(unwrap(r.error))
                 /\ ~r.stream_built
                 /\ engine = "none"
                 /\ pc = "none"
                 /\ frames = <<>>

\* a streaming request was hit by a 503 and answered with the envelope and
\* Retry-After: 60
C17_Witness ==
    /\ Len(requests) = 1
    /\ requests[1].stream
    /\ requests[1].error = Some(ServiceUnavailable)
    /\ is_some(requests[1].response)
    /\ unwrap(requests[1].response).status = 503
    /\ unwrap(requests[1].response).body.error.type = "service_unavailable"
    /\ unwrap(requests[1].response).retry_after = Some(<<"6", "0">>)
    /\ frames = <<>>

----------------------------------------------------------------------------
(* Stats: record_error *)

KindCounters == {"rate_limit_errors", "server_errors", "timeout_errors"}

\* the kind counter a status code belongs to, if any
KindCounterOf(code) ==
    CASE code = 429 -> "rate_limit_errors"
      [] code \in {500, 503} -> "server_errors"
      [] code = 504 -> "timeout_errors"
      [] OTHER -> "none"

\* C18: record_error(status) adds one to total_errors and takes one from
\* active_requests for every status code; it adds one to exactly one kind
\* counter for 429 (rate_limit_errors), 500 and 503 (server_errors) and 504
\* (timeout_errors), and to no kind counter for any other status.
C18_RecordError ==
    [][\A code \in StatusCodes :
          history'.errors[code] = history.errors[code] + 1 =>
              /\ stats'.total_errors = stats.total_errors + 1
              /\ stats'.active_requests = stats.active_requests - 1
              /\ \A k \in KindCounters :
                    stats'[k] = stats[k]
                                + (IF k = KindCounterOf(code) THEN 1 ELSE 0)]_vars

\* a 503, a 400 and a 504 have been recorded
C18_Witness ==
    /\ history.errors[503] = 1
    /\ history.errors[400] = 1
    /\ history.errors[504] = 1
    /\ Errored = 3
    /\ stats.total_errors = 3
    /\ stats.server_errors = 1
    /\ stats.timeout_errors = 1
    /\ stats.rate_limit_errors = 0
    /\ stats.active_requests = 0

----------------------------------------------------------------------------
(* Stats: latency sum, minimum and maximum *)

\* the latencies passed to record_request_end so far
Recorded == {d \in Latencies : history.latencies[d] > 0}
MinRecorded == CHOOSE d \in Recorded : \A e \in Recorded : d <= e
MaxRecorded == CHOOSE d \in Recorded : \A e \in Recorded : d >= e
RECURSIVE SumRecorded(_)
SumRecorded(S) ==
    IF S = {} THEN 0
    ELSE LET d == CHOOSE e \in S : TRUE
         IN d * history.latencies[d] + SumRecorded(S \ {d})

\* C19: over any sequence of record_request_end calls the latency sum never
\* decreases, the minimum never increases and the maximum never decreases;
\* after the calls the minimum and the maximum are the smallest and the
\* largest latency recorded and the average is the sum divided by the count.
C19_LatencyAggregates ==
    /\ [][/\ stats'.total_latency_us >= stats.total_latency_us
          /\ stats'.min_latency_us <= stats.min_latency_us
          /\ stats'.max_latency_us >= stats.max_latency_us]_vars
    /\ [](Ended > 0 =>
             /\ stats.min_latency_us = MinRecorded * 1000
             /\ stats.max_latency_us = MaxRecorded * 1000
             /\ stats.completed_requests = Ended
             /\ RatioEq(avg_latency_ms(stats),
                        Ratio(SumRecorded(Latencies), Ended))
             /\ is_some(min_latency_ms(stats))
                   /\ RatioEq(unwrap(min_latency_ms(stats)),
                              Ratio(MinRecorded, 1))
             /\ is_some(max_latency_ms(stats)) =>
                   RatioEq(unwrap(max_latency_ms(stats)),
                           Ratio(MaxRecorded, 1)))

\* latencies of 100, 200 and 300 ms: average 200, minimum 100, maximum 300
C19_Witness ==
    /\ history.latencies[from_millis(100)] = 1
    /\ history.latencies[from_millis(200)] = 1
    /\ history.latencies[from_millis(300)] = 1
    /\ Ended = 3
    /\ RatioEq(avg_latency_ms(stats), Ratio(200, 1))
    /\ min_latency_ms(stats) = Some(Ratio(100000, 1000))
    /\ max_latency_ms(stats) = Some(Ratio(300000, 1000))

----------------------------------------------------------------------------
(* Stats: the size of the rolling window *)

\* C20: the rolling vector of request-start timestamps never grows beyond a
\* fixed upper bound, however many record_request_start calls fall within
\* one window of 60 seconds.
C20_RollingVectorCapped == Len(stats.request_times) <= RollingCap

----------------------------------------------------------------------------
(* Pipeline: which latency profile a request gets *)

\* C21: a request is served with the profile Config::latency_profile builds
\* whenever the configuration names a profile or sets ttft_mean_ms or
\* tbt_mean_ms, and with the profile of its model name only when the
\* configuration has no latency setting
C21_ConfiguredLatencyHonoured ==
    \A i \in DOMAIN requests :
        is_some(requests[i].latency) =>
            /\ unwrap(requests[i].latency)
                   = IF latency_configured(config)
                     THEN latency_profile(config)
                     ELSE from_model(requests[i].model)
            /\ requests[i].stream_built =>
                   latency = unwrap(requests[i].latency)

----------------------------------------------------------------------------
(* Functions called on their own, as the unit tests call them *)

\* the largest token count a call is given, next to the 100 of the tests
MaxOutputTokens == 5

\* model names: the families from_model and is_reasoning_model look for,
\* alone, in pairs and in other letter cases, and the names of the tests
Families ==
    {"gpt-5-mini", "gpt-5", "o1", "o3", "o4", "gpt-4o", "gpt-4", "opus",
     "sonnet", "haiku", "gemini", "llama", "GPT-4O", "Opus"}
ModelNames ==
    Families
        \cup {a \o "-" \o b : a, b \in Families}
        \cup {"gpt-5.1", "gpt-5.2", "o3-mini", "o4-mini", "gpt-4-turbo",
              "gpt-4o-mini", "claude-3-opus-20240229", "claude-sonnet-4",
              "GPT-5-Mini", "proto3", ""}

\* f64::round on a number of halves: half away from zero
round_halves(h) == (h + 1) \div 2

CallsOf_calculate_reasoning_tokens ==
    [fn : {"calculate_reasoning_tokens"}, model : ModelNames,
     reasoning : ReasoningEfforts,
     output_tokens : (0..MaxOutputTokens) \cup {100}, returned : {None}]

Call_calculate_reasoning_tokens ==
    /\ unit # NoUnit
    /\ unit.fn = "calculate_reasoning_tokens"
    /\ unit.returned = None
    /\ unit' = [unit EXCEPT
                   !.returned =
                       Some(calculate_reasoning_tokens(
                                unit.model, unit.reasoning,
                                unit.output_tokens))]
    /\ UNCHANGED <<stats, now, writers, requests, history, config, injector,
                   reader>>
    /\ streamUnchanged

----------------------------------------------------------------------------
(* Reasoning tokens *)

\* C22: for a reasoning model calculate_reasoning_tokens returns the output
\* token count times the multiplier of the effort (0, 0.5, 1.5, 3, 6, 10 for
\* none, minimal, low, medium, high, xhigh; medium when no effort is named),
\* rounded to the nearest whole number, for every token count; for any other
\* model it returns 0
C22_ReasoningTokensRounded ==
    (/\ unit # NoUnit
     /\ unit.fn = "calculate_reasoning_tokens"
     /\ is_some(unit.returned)
     /\ effort_of(unit.reasoning) \in Efforts \ {"HIGH"}) =>
        unwrap(unit.returned)
            = IF is_reasoning_model(unit.model)
              THEN round_halves(unit.output_tokens
                                    * multiplier_halves(
                                          effort_of(unit.reasoning)))
              ELSE 0

----------------------------------------------------------------------------
(* Pipeline: the usage of a request *)

\* the reasoning tokens a usage reports, 0 when it has no such detail
reasoning_of(u) ==
    IF "output_tokens_details" \in DOMAIN u
       /\ is_some(u.output_tokens_details)
    THEN unwrap(u.output_tokens_details).reasoning_tokens
    ELSE 0

\* C23: the usage of every request has total_tokens = prompt (input) tokens
\* + completion (output) tokens + reasoning tokens, and its reasoning tokens
\* are 0 on the chat endpoint and for a model that does not reason; a stream
\* is built with that usage
C23_UsageTotal ==
    \A i \in DOMAIN requests :
        is_some(requests[i].usage) =>
            LET r == requests[i]
                u == unwrap(r.usage)
            IN /\ u.total_tokens
                      = prompt_of(u) + completion_of(u) + reasoning_of(u)
               /\ (r.handler = "chat_completions"
                      \/ ~is_reasoning_model(r.model)) => reasoning_of(u) = 0
               /\ r.stream_built => usage = UsageOf(r.handler, u)

C23_Witness ==
    \E i \in DOMAIN requests :
        /\ requests[i].pc = "responded"
        /\ requests[i].handler = "create_response"
        /\ is_some(requests[i].usage)
        /\ reasoning_of(unwrap(requests[i].usage)) = 1
        /\ unwrap(requests[i].usage).total_tokens = 12

----------------------------------------------------------------------------
(* Generators *)

\* the values of response.generator
GeneratorNames ==
    {"lorem", "Echo", "echo", "random", "random_word", "sequence", "fixed",
     "other", "fixed:", "fixed:Hi.", "fixed:hi.", "FIXED:Hi.", "fixed:OK",
     "fixed:a b", "Fixed:Yes No"}

\* create_generator: the match is on the lowercased name, and the fixed
\* response is cut out of that lowercased name (`&fixed[6..]`)
create_generator(name, target_tokens) ==
    LET lowered == to_lowercase(name)
    IN IF lowered = "lorem"
       THEN [name |-> "lorem", target_tokens |-> target_tokens]
       ELSE IF lowered = "echo" THEN [name |-> "echo"]
       ELSE IF lowered \in {"random", "random_word"}
       THEN [name |-> "random", target_tokens |-> target_tokens]
       ELSE IF lowered = "sequence"
       THEN [name |-> "sequence", target_tokens |-> target_tokens]
       ELSE IF starts_with(lowered, "fixed:")
       THEN [name |-> "fixed",
             response |-> SubSeq(lowered, 7, Len(lowered))]
       ELSE [name |-> "lorem", target_tokens |-> target_tokens]

\* ResponseGenerator::generate of the FixedGenerator; what the other
\* generators write is left open
generate(generator) ==
    IF generator.name = "fixed" THEN Some(generator.response) ELSE None

CallsOf_generate ==
    [fn : {"generate"}, name : GeneratorNames,
     target_tokens : 1..MaxOutputTokens, returned : {None}]

\* `create_generator(name, target_tokens).generate(&request)`
Call_generate ==
    /\ unit # NoUnit
    /\ unit.fn = "generate"
    /\ unit.returned = None
    /\ LET generator == create_generator(unit.name, unit.target_tokens)
       IN unit' = [unit EXCEPT
                      !.returned = Some([generator |-> generator.name,
                                         content |-> generate(generator)])]
    /\ UNCHANGED <<stats, now, writers, requests, history, config, injector,
                   reader>>
    /\ streamUnchanged

\* C24: the generator named `fixed:<string>` answers with <string> as it is
\* written in the configuration, letter case included: `fixed:Hi.` gives
\* "Hi."
C24_FixedVerbatim ==
    (/\ unit # NoUnit
     /\ unit.fn = "generate"
     /\ is_some(unit.returned)
     /\ starts_with(unit.name, "fixed:")) =>
        /\ unwrap(unit.returned).generator = "fixed"
        /\ unwrap(unit.returned).content
               = Some(SubSeq(unit.name, 7, Len(unit.name)))

----------------------------------------------------------------------------
(* Latency sampling, called on its own *)

\* the two copies of LatencyProfile the sources hold
LatencyCopies == {"src/src/latency.rs", "src/llmsim/src/latency.rs"}

\* f64::max(0.0) followed by `as u64`, on tenths: the floor of the copy in
\* src/llmsim
floor_at_0ms(draw) == (IF draw > 0 THEN draw ELSE 0) \div 10

\* one sample of N(mean, stddev) in a copy, for a draw of the normal
\* distribution
sample_draw(copy, mean, stddev, draw) ==
    IF mean = 0 THEN 0
    ELSE IF stddev > 0
    THEN IF copy = "src/src/latency.rs" THEN floor_at_1ms(draw)
         ELSE floor_at_0ms(draw)
    ELSE mean

CallsOf_sample ==
    [fn : {"sample_ttft", "sample_tbt"}, copy : LatencyCopies,
     profile : Presets \cup LatencyProfiles, draw : NormalDraws,
     returned : {None}]

\* LatencyProfile::sample_ttft, LatencyProfile::sample_tbt
Call_sample ==
    /\ unit # NoUnit
    /\ unit.fn \in {"sample_ttft", "sample_tbt"}
    /\ unit.returned = None
    /\ LET p == unit.profile
       IN unit' = [unit EXCEPT
                      !.returned =
                          IF unit.fn = "sample_ttft"
                          THEN Some(sample_draw(unit.copy, p.ttft_mean_ms,
                                                p.ttft_stddev_ms, unit.draw))
                          ELSE Some(sample_draw(unit.copy, p.tbt_mean_ms,
                                                p.tbt_stddev_ms, unit.draw))]
    /\ UNCHANGED <<stats, now, writers, requests, history, config, injector,
                   reader>>
    /\ streamUnchanged

\* C25: sample_ttft and sample_tbt return zero when the mean is 0, the mean
\* when the standard deviation is 0, and otherwise at least 1 ms whatever
\* the normal distribution draws
C25_SampleFloors ==
    (/\ unit # NoUnit
     /\ unit.fn \in {"sample_ttft", "sample_tbt"}
     /\ is_some(unit.returned)) =>
        LET p == unit.profile
            mean == IF unit.fn = "sample_ttft" THEN p.ttft_mean_ms
                    ELSE p.tbt_mean_ms
            stddev == IF unit.fn = "sample_ttft" THEN p.ttft_stddev_ms
                      ELSE p.tbt_stddev_ms
            d == unwrap(unit.returned)
        IN /\ mean = 0 => d = 0
           /\ (mean # 0 /\ stddev = 0) => d = mean
           /\ (mean # 0 /\ stddev > 0) => d >= 1

----------------------------------------------------------------------------
(* Responses stream: where it sleeps *)

\* the suspensions of each kind, by their place in the history
TtftSleeps == {k \in DOMAIN sleeps : sleeps[k][1] = "ttft"}
TbtSleeps == {k \in DOMAIN sleeps : sleeps[k][1] = "tbt"}

\* the tokens a responses stream has to send: those of the summary, when it
\* has one, and those of the content
SummaryTokenCount ==
    IF is_some(reasoning) /\ is_some(summary_text)
    THEN Len(tokenize_text(unwrap(summary_text)))
    ELSE 0
ContentTokenCount == Len(responses_tokenize(content))

\* C26: a responses stream sleeps on a timer at two kinds of places only:
\* once for the sampled TTFT, after response.created and before
\* response.in_progress, and once for a sampled TBT right before each
\* reasoning-summary delta and each output_text delta, so that a drained
\* stream of a profile with a time between tokens has slept as many TBTs as
\* it has summary and content tokens; a sample of zero is never slept on
C26_TimerSuspensions ==
    engine = "responses" =>
        /\ \A k \in DOMAIN sleeps : sleeps[k][1] \in {"ttft", "tbt"}
        /\ is_some(timer) => unwrap(timer) > 0
        /\ latency.ttft_mean_ms = 0 => TtftSleeps = {}
        /\ latency.tbt_mean_ms = 0 => TbtSleeps = {}
        /\ \A k \in TtftSleeps :
              /\ k = 1
              /\ sleeps[k][2] = 1
              /\ EventIs(frames[1], "response.created")
              /\ Len(frames) >= 2 =>
                    EventIs(frames[2], "response.in_progress")
        /\ \A k \in TbtSleeps :
              /\ Len(frames) > sleeps[k][2] =>
                    IsDeltaFrame(frames[sleeps[k][2] + 1])
              /\ \A j \in TbtSleeps : j # k => sleeps[j][2] # sleeps[k][2]
        /\ pc = "ended" =>
              /\ latency.ttft_mean_ms > 0 => Cardinality(TtftSleeps) = 1
              /\ latency.tbt_mean_ms > 0 =>
                    /\ Cardinality(TbtSleeps)
                           = SummaryTokenCount + ContentTokenCount
                    /\ \A n \in 1..Len(frames) :
                          IsDeltaFrame(frames[n]) =>
                              \E k \in TbtSleeps : sleeps[k][2] = n - 1

\* a drained stream that slept the TTFT and one TBT for each of its summary
\* and content tokens
C26_Witness ==
    /\ engine = "responses" /\ pc = "ended"
    /\ SummaryTokenCount > 0 /\ ContentTokenCount > 1
    /\ Cardinality(TtftSleeps) = 1
    /\ Cardinality(TbtSleeps) = SummaryTokenCount + ContentTokenCount

----------------------------------------------------------------------------
(* Latency profile of a model name *)

CallsOf_from_model ==
    [fn : {"from_model"}, model : ModelNames, returned : {None}]

\* LatencyProfile::from_model
Call_from_model ==
    /\ unit # NoUnit
    /\ unit.fn = "from_model"
    /\ unit.returned = None
    /\ unit' = [unit EXCEPT !.returned = Some(from_model(unit.model))]
    /\ UNCHANGED <<stats, now, writers, requests, history, config, injector,
                   reader>>
    /\ streamUnchanged

\* the families in the order of the claim: what a lowercased name must
\* contain (or, for the o-series, start with) to belong to the family
InFamily(k, lowered) ==
    CASE k = 1 -> contains(lowered, "gpt-5-mini")
      [] k = 2 -> contains(lowered, "gpt-5")
      [] k = 3 -> starts_with(lowered, "o3") \/ starts_with(lowered, "o4")
      [] k = 4 -> contains(lowered, "gpt-4o")
      [] k = 5 -> contains(lowered, "gpt-4")
      [] k = 6 -> contains(lowered, "opus")
      [] k = 7 -> contains(lowered, "sonnet")
      [] k = 8 -> contains(lowered, "haiku")
      [] k = 9 -> contains(lowered, "gemini")
FamilyProfile(k) ==
    CASE k = 1 -> gpt5_mini
      [] k = 2 -> gpt5
      [] k = 3 -> o_series
      [] k = 4 -> gpt4o
      [] k = 5 -> gpt4
      [] k = 6 -> claude_opus
      [] k = 7 -> claude_sonnet
      [] k = 8 -> claude_haiku
      [] k = 9 -> gemini_pro

----------------------------------------------------------------------------
(* Stats: counters never go down *)

\* the counters of Stats other than active_requests
MonotoneCounters ==
    {"total_requests", "streaming_requests", "non_streaming_requests",
     "completions_requests", "responses_requests", "prompt_tokens",
     "completion_tokens", "total_errors", "rate_limit_errors",
     "server_errors", "timeout_errors", "completed_requests",
     "total_latency_us"}

\* C28: no atomic operation of record_request_start, record_request_end or
\* record_error, in whatever interleaving of the callers, lowers a counter
\* of Stats other than active_requests: the request counts (total,
\* streaming, non-streaming, per endpoint, per model), the token totals, the
\* error counters, the completed count and the latency sum
C28_CountersMonotone ==
    [][/\ \A c \in MonotoneCounters : stats'[c] >= stats[c]
       /\ \A model \in DOMAIN stats.model_requests :
             /\ model \in DOMAIN stats'.model_requests
             /\ stats'.model_requests[model] >= stats.model_requests[model]
      ]_vars

\* both writers are between calls, requests have ended both ways, and
\* active_requests is back to 0 while the other counters have grown
C28_Witness ==
    /\ Quiescent
    /\ stats.total_requests >= 2
    /\ stats.completed_requests >= 1
    /\ stats.total_errors >= 1
    /\ stats.server_errors >= 1
    /\ stats.active_requests = 0
    /\ DOMAIN stats.model_requests = {"gpt-4", "claude-opus"}

----------------------------------------------------------------------------
(* OpenResponses stream: frame order and callback *)

\* what a frame of an OpenResponses stream is: the type of its event, or
\* the [DONE] marker
OpenRespFrameType(f) == IF IsDoneFrame(f) THEN "[DONE]" ELSE f.json.type

\* the frames of a drained stream of n tokens, by type
OpenRespFrameTypes(n) ==
    <<"response.created", "response.in_progress",
      "response.output_item.added", "response.content_part.added">>
        \o [k \in 1..n |-> "response.output_text.delta"]
        \o <<"response.output_text.done", "response.content_part.done",
             "response.output_item.done", "response.completed", "[DONE]">>

\* C29: an OpenResponses stream emits response.created,
\* response.in_progress, output_item.added, content_part.added, one
\* output_text.delta per token carrying that token, output_text.done,
\* content_part.done, output_item.done, response.completed and `[DONE]`, in
\* that order and nothing else; drained, it has emitted them all, `[DONE]`
\* last, and its on-completion callback runs once, after that last frame
C29_OpenResponsesFrameOrder ==
    engine = "openresponses" =>
        LET toks == openresponses_tokenize(content)
            expected == OpenRespFrameTypes(Len(toks))
        IN /\ Len(frames) <= Len(expected)
           /\ \A k \in 1..Len(frames) :
                 /\ OpenRespFrameType(frames[k]) = expected[k]
                 /\ expected[k] = "response.output_text.delta" =>
                       frames[k].json.delta = Some(toks[k - 4])
           /\ pc = "ended" =>
                 /\ Len(frames) = Len(expected)
                 /\ IsDoneFrame(Last(frames))
           /\ callback_calls <= 1
           /\ callback_calls > 0 =>
                 /\ is_some(on_complete)
                 /\ pc = "ended"
                 /\ Len(frames) = Len(expected)
                 /\ IsDoneFrame(Last(frames))
           /\ (pc = "ended" /\ is_some(on_complete)) => callback_calls = 1

\* a drained stream of several tokens whose callback has run
C29_Witness ==
    /\ engine = "openresponses" /\ pc = "ended"
    /\ Len(openresponses_tokenize(content)) >= 2
    /\ Len(frames) = 9 + Len(openresponses_tokenize(content))
    /\ IsDoneFrame(Last(frames))
    /\ callback_calls = 1

----------------------------------------------------------------------------
(* Pipeline: when the end of a request is recorded *)

\* the record_request_end calls made for request i
EndCalls(i) ==
    Cardinality({k \in DOMAIN requests[i].calls :
                    requests[i].calls[k].call = "record_request_end"})

\* the requests whose end has been recorded
EndedRequests == {i \in DOMAIN requests : EndCalls(i) = 1}

\* the last frame a drained stream of handler h has yielded
IsLastFrame(h, f) ==
    IF h = "create_response" THEN EventIs(f, "response.completed")
    ELSE IsDoneFrame(f)

\* C30: a request the injector does not hit has record_request_end called
\* for it once and no more: a one-shot request in the step that returns its
\* JSON response, after the one sleep of the sampled TTFT if that is not
\* zero; a streaming request by the on-completion callback alone, once the
\* stream has yielded its last frame, and never when the stream is dropped
\* before that, so that the totals hold the tokens of the ended requests only
C30_RecordRequestEndOnce ==
    /\ \A i \in DOMAIN requests :
          LET r == requests[i]
          IN /\ EndCalls(i) <= 1
             /\ (r.error = None /\ ~r.stream) =>
                   /\ EndCalls(i) = 1 <=> r.pc = "responded"
                   /\ r.pc = "responded" =>
                         /\ Last(r.calls).call = "record_request_end"
                         /\ unwrap(r.response).status = 200
                         /\ r.slept \in sample_ttft(unwrap(r.latency))
                   /\ r.pc = "sleeping" =>
                         r.slept \in sample_ttft(unwrap(r.latency)) \ {0}
             /\ (r.error = None /\ r.stream) =>
                   /\ EndCalls(i) = 1 <=> (r.stream_built /\ pc = "ended")
                   /\ EndCalls(i) = 1 =>
                         /\ callback_calls = 1
                         /\ frames # <<>>
                         /\ IsLastFrame(r.handler, Last(frames))
                   /\ (r.stream_built /\ pc = "dropped") => EndCalls(i) = 0
    /\ stats.completed_requests = Cardinality(EndedRequests)
    /\ stats.prompt_tokens
           = SumOver(EndedRequests,
                     [i \in EndedRequests |->
                         prompt_of(unwrap(requests[i].usage))])
    /\ stats.completion_tokens
           = SumOver(EndedRequests,
                     [i \in EndedRequests |->
                         completion_of(unwrap(requests[i].usage))])

\* a streaming request whose stream was drained: the callback has recorded
\* its end and its tokens
C30_Witness ==
    \E i \in DOMAIN requests :
        /\ requests[i].stream_built /\ pc = "ended"
        /\ requests[i].handler = "chat_completions"
        /\ requests[i].calls = <<[call |-> "record_request_start"],
                                 [call |-> "record_request_end"]>>
        /\ stats.completed_requests = 1
        /\ stats.completion_tokens = 2

----------------------------------------------------------------------------
(* Stats: the request counts agree with one another *)

\* the sum of the per-model counts
ModelRequestsSum == SumOver(DOMAIN stats.model_requests, stats.model_requests)

\* C31: whenever no record_request_start is in progress, total_requests is
\* streaming_requests + non_streaming_requests, is completions_requests +
\* responses_requests and is the sum of the per-model counts, and the count
\* of each model is the number of starts made with that model name (a model
\* never started has no entry).
C31_RequestCountsAgree ==
    Quiescent =>
        /\ stats.total_requests
              = stats.streaming_requests + stats.non_streaming_requests
        /\ stats.total_requests
              = stats.completions_requests + stats.responses_requests
        /\ stats.total_requests = ModelRequestsSum
        /\ DOMAIN stats.model_requests = {m \in Models : history.models[m] > 0}
        /\ \A m \in DOMAIN stats.model_requests :
              stats.model_requests[m] = history.models[m]

\* both writers have finished: two models, each started more than once, one
\* writer streaming on the chat endpoint and one not on the responses one
C31_Witness ==
    /\ AllFinished
    /\ stats.total_requests = NumWriters * Iterations
    /\ stats.model_requests["gpt-4"] > 1
    /\ stats.model_requests["claude-opus"] > 1
    /\ stats.streaming_requests > 0 /\ stats.non_streaming_requests > 0
    /\ stats.completions_requests > 0 /\ stats.responses_requests > 0

----------------------------------------------------------------------------
(* Stats: the compare-and-swap loops of record_request_end *)

\* C32: under any interleaving of concurrent record_request_end calls no
\* extreme is lost: whenever every call has returned, min_latency_us is the
\* smallest and max_latency_us the largest latency passed by any call; and
\* no thread stays in a retry loop for ever: every writer gets through all
\* its calls.
C32_CasLoops ==
    /\ [](Quiescent /\ Ended > 0 =>
             /\ stats.min_latency_us = as_micros(MinRecorded)
             /\ stats.max_latency_us = as_micros(MaxRecorded))
    /\ <>AllFinished

\* the writer with the smaller latency lost the race for the minimum: the
\* value it loaded is no longer the one stored, so its compare-and-swap
\* fails and the loop goes round again
C32_Witness ==
    \E w \in Writers :
        /\ writers[w].call.pc = "min_cas"
        /\ writers[w].call.current_min # stats.min_latency_us
        /\ writers[w].call.latency_us < stats.min_latency_us
        /\ stats.min_latency_us # u64_MAX

----------------------------------------------------------------------------
(* Stats: the rolling window of request starts *)

\* C33: immediately after every record_request_start the rolling vector
\* ends with the timestamp just appended and holds no timestamp older than
\* 60 seconds before the call.
C33_WindowAfterStart ==
    [][history'.starts = history.starts + 1 =>
          LET times == stats'.request_times
          IN /\ Len(times) > 0
             /\ times[Len(times)] = now
             /\ \A k \in 1..Len(times) :
                   ~(times[k] < now - from_secs(WINDOW_SECS))]_vars

\* a request started at the epoch, the clock moved 60.001 s, and a second
\* start pushed its own timestamp and evicted the first
C33_Witness ==
    /\ now = Epoch + from_secs(WINDOW_SECS) + 1
    /\ history.starts = 2
    /\ stats.request_times = <<now>>

----------------------------------------------------------------------------
(* Stats: requests per second *)

\* the timestamps of the rolling vector within the last 60 seconds
InWindow ==
    {k \in 1..Len(stats.request_times) :
        stats.request_times[k] > now - from_secs(WINDOW_SECS)}
\* the oldest of them
OldestInWindow ==
    CHOOSE t \in {stats.request_times[k] : k \in InWindow} :
        \A k \in InWindow : t <= stats.request_times[k]
\* their number over the seconds from the oldest of them to now
CountOverSpan ==
    Ratio(Cardinality(InWindow) * 1000, now - OldestInWindow)

\* C34 as stated: requests_per_second is 0 when no timestamp lies within
\* the last 60 seconds, and otherwise the number of such timestamps divided
\* by the span from the oldest of them to now.
C34_RpsOverSpan ==
    IF InWindow = {}
    THEN RatioEq(requests_per_second(stats, now), Ratio(0, 1))
    ELSE RatioEq(requests_per_second(stats, now), CountOverSpan)

\* C34: requests_per_second is 0 when no timestamp lies within the last 60
\* seconds and when the oldest of them was taken at the very instant of the
\* call (a span of zero); otherwise it is the number of such timestamps
\* divided by the span from the oldest of them to now, whatever that span.
C34_RpsOverPositiveSpan ==
    IF InWindow = {} \/ OldestInWindow = now
    THEN RatioEq(requests_per_second(stats, now), Ratio(0, 1))
    ELSE RatioEq(requests_per_second(stats, now), CountOverSpan)

\* one start has fallen out of the window and two are still in it, the
\* older of them 59.999 s old: 2 requests over 59.999 s
C34_Witness ==
    /\ Len(stats.request_times) = 3
    /\ Cardinality(InWindow) = 2
    /\ now - OldestInWindow = from_secs(WINDOW_SECS) - 1
    /\ requests_per_second(stats, now)
          = Ratio(2000, from_secs(WINDOW_SECS) - 1)

----------------------------------------------------------------------------
(* Pipeline: the requests in flight *)

\* the record_error calls made for request i
RecordErrorCalls(i) ==
    Cardinality({k \in DOMAIN requests[i].calls :
                    requests[i].calls[k].call = "record_error"})

\* the requests that have called record_request_start and neither
\* record_request_end nor record_error yet
OpenRequests ==
    {i \in DOMAIN requests :
        /\ requests[i].calls[1].call = "record_request_start"
        /\ EndCalls(i) = 0
        /\ RecordErrorCalls(i) = 0}

\* request i has returned its JSON response or its error, or its stream
\* has been drained to the end
Settled(i) ==
    IF requests[i].stream_built THEN pc = "ended"
    ELSE requests[i].pc = "responded"

----------------------------------------------------------------------------
(* Stats: when the latency extremes are reported *)

\* C36: min_latency_ms and max_latency_ms are each None exactly when no
\* record_request_end has been recorded; once one has, both are present
\* whatever latency was recorded, a latency of 0 included.
C36_ExtremesPresentOnceCompleted ==
    /\ min_latency_ms(stats) = None <=> stats.completed_requests = 0
    /\ max_latency_ms(stats) = None <=> stats.completed_requests = 0

----------------------------------------------------------------------------
(* Stats: a snapshot taken while the counters move *)

\* the snapshot the reader has returned with
Returned == reader # NoReader /\ reader.pc = "returned"

\* C37: in every snapshot, one taken while record_request_end calls are in
\* progress on other threads included, total_tokens is prompt_tokens +
\* completion_tokens of that same snapshot.
C37_SnapshotTotalTokens ==
    Returned =>
        reader.snapshot.total_tokens
            = reader.snapshot.prompt_tokens + reader.snapshot.completion_tokens


\* a <= b for two quotients with positive denominators
RatioLe(a, b) == a.num * b.den <= b.num * a.den

\* C38: in every snapshot that reports a completed request (its minimum
\* and maximum are present), one taken while record_request_end calls are
\* in progress on other threads included, min_latency_ms <= avg_latency_ms
\* <= max_latency_ms.
C38_SnapshotMinAvgMax ==
    (/\ Returned
     /\ is_some(reader.snapshot.min_latency_ms)
     /\ is_some(reader.snapshot.max_latency_ms)) =>
        /\ RatioLe(unwrap(reader.snapshot.min_latency_ms),
                   reader.snapshot.avg_latency_ms)
        /\ RatioLe(reader.snapshot.avg_latency_ms,
                   unwrap(reader.snapshot.max_latency_ms))

----------------------------------------------------------------------------
(* Stats: the error kinds and the error total *)

\* the errors counted by kind
KindErrors ==
    stats.rate_limit_errors + stats.server_errors + stats.timeout_errors

\* the status codes record_error counts under no kind
OtherStatusCodes == StatusCodes \ {429, 500, 503, 504}

\* C39: in every reachable state of Stats, whatever the interleaving of
\* the record_error calls, rate_limit_errors + server_errors +
\* timeout_errors <= total_errors; the two are equal whenever no call is in
\* progress and every status recorded so far is 429, 500, 503 or 504.
C39_ErrorKindsWithinTotal ==
    /\ KindErrors <= stats.total_errors
    /\ (Quiescent /\ \A code \in OtherStatusCodes : history.errors[code] = 0)
          => KindErrors = stats.total_errors

\* no call is in progress; the writers have recorded errors of all three
\* kinds and none of another status
C39_Witness ==
    /\ Quiescent
    /\ \A code \in OtherStatusCodes : history.errors[code] = 0
    /\ stats.rate_limit_errors > 0
    /\ stats.server_errors > 0
    /\ stats.timeout_errors > 0
    /\ stats.total_errors = Errored
    /\ KindErrors = stats.total_errors

----------------------------------------------------------------------------
(* create_response: when the stream carries reasoning *)

\* the reasoning tokens create_response computes for request i
ReasoningTokensOf(i) ==
    calculate_reasoning_tokens(requests[i].model, requests[i].reasoning,
                               count_tokens(requests[i].content))

\* the request asks for a summary in one of the three modes
AsksSummary(i) ==
    summary_mode(requests[i].reasoning)
        \in {Some("auto"), Some("concise"), Some("detailed")}

HasReasoningItem == \E k \in 1..Len(frames) : ItemFrameOf(frames[k], "reasoning")
HasSummaryText == \E k \in 1..Len(frames) : IsSummaryFrame(frames[k])

\* C40: the stream of a responses request holds a reasoning output item
\* exactly when the reasoning tokens computed for the request are more than
\* zero, which they never are for a model that is no reasoning model or for
\* effort none, and holds reasoning summary events exactly when, besides,
\* the request asks for summary auto, concise or detailed. The frames of a
\* reasoning stream come first, so a stream that has yielded a frame shows
\* whether it carries them.
C40_ReasoningPrelude ==
    \A i \in DOMAIN requests :
        LET r == requests[i]
        IN (r.handler = "create_response" /\ r.stream_built) =>
              /\ ReasoningTokensOf(i) > 0 =>
                    /\ is_reasoning_model(r.model)
                    /\ effort_of(r.reasoning) # "none"
              /\ HasReasoningItem => ReasoningTokensOf(i) > 0
              /\ HasSummaryText => ReasoningTokensOf(i) > 0 /\ AsksSummary(i)
              /\ pc = "ended" =>
                    /\ HasReasoningItem <=> ReasoningTokensOf(i) > 0
                    /\ HasSummaryText
                           <=> (ReasoningTokensOf(i) > 0 /\ AsksSummary(i))

\* a drained stream of o3 at effort minimal with summary detailed: two
\* output tokens give one reasoning token, and the stream holds the reasoning
\* item and the summary text
C40_Witness ==
    \E i \in DOMAIN requests :
        /\ requests[i].handler = "create_response"
        /\ requests[i].stream_built /\ pc = "ended"
        /\ requests[i].model = "o3"
        /\ requests[i].reasoning
               = Some([effort |-> Some("minimal"),
                       summary |-> Some("detailed")])
        /\ ReasoningTokensOf(i) = 1
        /\ HasReasoningItem
        /\ \E k \in 1..Len(frames) :
              EventIs(frames[k], "response.reasoning_summary_text.delta")

----------------------------------------------------------------------------
(* The functions called on their own *)

UnitsNext ==
    \/ Call_calculate_reasoning_tokens
    \/ Call_generate
    \/ Call_sample
    \/ Call_from_model

\* one call of one function on arguments of its domain
UnitsInit ==
    /\ NoStream
    /\ stats = Stats_new
    /\ now = Epoch
    /\ writers = <<>>
    /\ requests = <<>>
    /\ history = NoHistory
    /\ config = Config_default
    /\ injector = NoInjector
    /\ reader = NoReader
    /\ \/ unit \in CallsOf_calculate_reasoning_tokens
       \/ unit \in CallsOf_generate
       \/ unit \in CallsOf_sample
       \/ unit \in CallsOf_from_model

\* functions called on their own
SpecUnits == UnitsInit /\ [][UnitsNext]_vars

====
